---- MODULE Spec2Model ----
(***************************************************************************)
(* Verification model of the OperatingSystemExChecker graders              *)
(* (ex0, ex1, ex1-b, ex2, ex3, ex4, ex5).                                  *)
(*                                                                         *)
(* Part 1 (SpecScore): main() and process_submission() of every grader as  *)
(* a staged state machine over the verdict (deductions accumulator,        *)
(* 'Points Deducted', 'Final Score', 'Issues', flags).                     *)
(* Part 2 (SpecGroup, SpecServers, SpecSingle): the execution harness with *)
(* wrapper Processes, student executables, queues, signals and time.       *)
(***************************************************************************)
EXTENDS Integers, Sequences, FiniteSets, TLC

VARIABLES
    grader,          \* which grade.py is running
    mainPc,          \* position of main()
    subIdx,          \* number of submission directories main() has taken up
    summary,         \* the summary list of main(): which submission each entry is for
    summaryWritten,  \* generate_summary() has been called
    pc,              \* position of process_submission()
    deductions,      \* local accumulator `deductions`
    pointsDeducted,  \* log['Points Deducted']
    finalScore,      \* log['Final Score']
    issues,          \* len(log['Issues'])
    flags,           \* boolean verdict fields
    stages,          \* external tools / stages that ran for this submission
    compiled,        \* programs whose log['Compilation'] entry is True after compiling
    gate,            \* the unrecoverable failure this submission met, if any
    observed,        \* what the tools reported for this submission beyond the flags
    lingering,       \* student processes of earlier submissions are still running
    gccVersionOk,    \* the installed gcc is the one verify_gcc_version() expects
    now,             \* wall-clock time in seconds
    hpc,             \* position of the execution phase of process_submission()
    hTimer,          \* time at which the harness's current sleep / join / wait ends
    joinIdx,         \* index of the role the harness is joining
    wst,             \* per role: state of the wrapper Process (run_program)
    launchAt,        \* per role: time at which the wrapper reaches subprocess.run
    est,             \* per role: state of the student executable
    eStart,          \* per role: time at which the student executable started
    beh,             \* per role: what the student's program does (chosen at start)
    pipe,            \* per role: content of the role's multiprocessing.Queue
    outputs,         \* per role: log_entry["Execution Outputs"][label]
    sigTo,           \* per role: SIGINTs sent by the harness to the role's process group
    frontPhase,      \* how far the harness is with the frontend
    folder,          \* two calls on one folder: what the submission folder holds
    first            \* two calls on one folder: what the first call returned

scoreVars == <<grader, mainPc, subIdx, summary, summaryWritten, pc,
               deductions, pointsDeducted, finalScore, issues, flags, stages,
               compiled, gate, observed, lingering, gccVersionOk>>

procVars == <<now, hpc, hTimer, joinIdx, wst, launchAt, est, eStart, beh, pipe,
              outputs>>

srvVars == <<sigTo, frontPhase>>

harnessVars == <<procVars, srvVars>>

rerunVars == <<folder, first>>

vars == <<scoreVars, harnessVars, rerunVars>>

(***************************************************************************)
(* Bounds                                                                  *)
(***************************************************************************)
NumSubs == 2            \* submission directories per run
MaxLatency == 1         \* seconds between Process.start() and the wrapper's launch
ShortRun == 1           \* running time of a program that ends well within its deadline

(***************************************************************************)
(* Program constants                                                       *)
(***************************************************************************)
TOTAL_POINTS == 100
FolderNameDeduction == 5
CompileFailDeduction == 10
OuterTimeoutDeduction == 5

Graders == {"ex0", "ex1", "ex1b", "ex2", "ex3", "ex4", "ex5"}

\* POINTS tables of ex0, ex1, ex1-b
POINTS0 == [filename_correct |-> 5, content_structure |-> 10,
            compilation_errors |-> 60, compilation_warnings |-> 5,
            valgrind |-> 10, output_correct |-> 10, comments_present |-> 5,
            readme_correct |-> 5]
POINTS1 == [filename_correct |-> 5, content_structure |-> 10,
            compilation_errors_ex1a |-> 10, compilation_errors_ex1b |-> 10,
            compilation_errors_extra |-> 10, compilation_warnings |-> 5,
            valgrind |-> 10, output_correct_ex1a |-> 10,
            output_correct_ex1b |-> 10, child_processes |-> 10,
            command_execution |-> 10, comments_present |-> 5,
            readme_correct |-> 5]
POINTS1B == [filename_correct |-> 5, content_structure |-> 10,
             compilation_errors_str_str |-> 10, compilation_errors_count |-> 10,
             compilation_errors_unique_str |-> 10, compilation_errors_shell |-> 10,
             compilation_warnings |-> 5, execution_errors |-> 10,
             output_capturing |-> 10, child_processes |-> 10,
             comments_present |-> 5, readme_correct |-> 5]
\* POINTS tables of ex2, ex3 and ex4/ex5
POINTS2 == [archive_format |-> 10, filename_correct |-> 10,
            readme_txt_extension |-> 3, comments_missing |-> 5]
POINTS3 == [archive_format |-> 10, filename_correct |-> 10,
            readme_txt_extension |-> 2, comments_missing |-> 5,
            extra_c_files |-> 2]
POINTS45 == [archive_format |-> 10, filename_correct |-> 10,
             readme_txt_extension |-> 2, comments_missing |-> 5,
             extra_c_files |-> 2]

\* number of entries of expected_sources / expected .c files
NumSources(g) == CASE g = "ex0" -> 1
                   [] g = "ex1" -> 5
                   [] g = "ex1b" -> 4
                   [] g = "ex2" -> 2
                   [] g = "ex3" -> 2
                   [] g = "ex4" -> 7
                   [] g = "ex5" -> 5

FlagNames == {"Filename Correct", "Content Structure", "Compilation",
              "Valgrind", "Output Correct", "Comments Present"}

Max(a, b) == IF a >= b THEN a ELSE b

(***************************************************************************)
(* The verdict as process_submission() initialises it                      *)
(***************************************************************************)
FreshFlags == [f \in FlagNames |-> TRUE]

SetFalse(S) == [f \in FlagNames |-> IF f \in S THEN FALSE ELSE flags[f]]

\* a charge that overwrites 'Points Deducted' instead of adding to it
DeductOverwrites(d, pd, n) ==
    /\ deductions' = deductions + d
    /\ pointsDeducted' = pd
    /\ issues' = issues + n

\* deductions += d ; log['Points Deducted'] += pd ; n Issues appended
Deduct(d, pd, n) ==
    /\ deductions' = deductions + d
    /\ pointsDeducted' = pointsDeducted + pd
    /\ issues' = issues + n

\* the verdict part of the model leaves the process table alone; a run of
\* main() over the submission directories is not a second call on a folder
HarnessIdle == UNCHANGED <<harnessVars, rerunVars>>

MainUnchanged ==
    /\ UNCHANGED <<grader, gccVersionOk, mainPc, subIdx, summary, summaryWritten,
                   lingering>>
    /\ HarnessIdle


(***************************************************************************)
(* main(): pre-flight check, loop over the submission directories, summary *)
(***************************************************************************)
HasGccCheck(g) == g \in {"ex0", "ex1"}

\* main() up to the loop; verify_gcc_version() in ex0 and ex1
Main_Start ==
    /\ HarnessIdle
    /\ mainPc = "start"
    /\ mainPc' = IF HasGccCheck(grader) /\ ~gccVersionOk THEN "stopped" ELSE "loop"
    /\ UNCHANGED <<grader, gccVersionOk, subIdx, summary, summaryWritten, lingering,
                   pc, deductions,
                   pointsDeducted, finalScore, issues, flags, stages, compiled, gate, observed>>

\* the loop takes up the next submission directory and calls
\* process_submission(), which builds a fresh verdict
Main_Call ==
    /\ HarnessIdle
    /\ mainPc = "loop"
    /\ subIdx < NumSubs
    /\ mainPc' = "call"
    /\ subIdx' = subIdx + 1
    /\ pc' = "begin"
    /\ deductions' = 0
    /\ pointsDeducted' = 0
    /\ finalScore' = TOTAL_POINTS
    /\ issues' = 0
    /\ flags' = FreshFlags
    /\ stages' = {}
    /\ compiled' = {}
    /\ gate' = "none"
    /\ observed' = {}
    /\ UNCHANGED <<grader, gccVersionOk, summary, summaryWritten, lingering>>

\* process_submission() returned: summary.append(log)
Main_Append ==
    /\ HarnessIdle
    /\ mainPc = "call"
    /\ pc = "returned"
    /\ summary' = Append(summary, subIdx)
    /\ mainPc' = "loop"
    /\ UNCHANGED <<grader, gccVersionOk, subIdx, summaryWritten, lingering, pc,
                   deductions,
                   pointsDeducted, finalScore, issues, flags, stages, compiled, gate, observed>>

\* a main() that writes the summary file inside the loop, after each append
Main_SummaryInLoop ==
    /\ HarnessIdle
    /\ mainPc = "loop"
    /\ subIdx > 0
    /\ ~summaryWritten \/ subIdx = NumSubs
    /\ mainPc' = IF subIdx = NumSubs THEN "finished" ELSE "loop"
    /\ summaryWritten' = TRUE
    /\ UNCHANGED <<grader, gccVersionOk, subIdx, summary, lingering, pc, deductions,
                   pointsDeducted, finalScore, issues, flags, stages, compiled, gate, observed>>

\* after the loop: generate_json_summary(summary, summary_file)
Main_Summary ==
    /\ HarnessIdle
    /\ mainPc = "loop"
    /\ subIdx = NumSubs
    /\ mainPc' = "finished"
    /\ summaryWritten' = TRUE
    /\ UNCHANGED <<grader, gccVersionOk, subIdx, summary, lingering, pc, deductions,
                   pointsDeducted, finalScore, issues, flags, stages, compiled, gate, observed>>

\* an exception leaves process_submission(); main() has no handler around
\* the call, so the run ends there
Raise ==
    /\ pc' = "raised"
    /\ mainPc' = "aborted"
    /\ HarnessIdle

(***************************************************************************)
(* ex0: process_submission                                                 *)
(***************************************************************************)
\* an archive search that charges the missing archive and goes on to extract
ArchiveSearchGoesOn(fc, nArch, nameOk, nextPc) ==
    /\ Deduct(IF nArch = 1 /\ nameOk THEN 0 ELSE fc,
              IF nArch = 1 /\ nameOk THEN 0 ELSE fc,
              IF nArch = 1 /\ nameOk THEN 0 ELSE 1)
    /\ flags' = IF nArch = 1 /\ nameOk THEN flags ELSE SetFalse({"Filename Correct"})
    /\ gate' = IF nArch = 0 THEN "no_archive" ELSE gate
    /\ UNCHANGED finalScore
    /\ pc' = nextPc

\* several archives charged like a single wrong name
ManyArchivesChargeOnce(fc) == fc

\* "Deduct double points for multiple files"
ManyArchivesCharge(fc) == fc * 2

\* the archive search of ex0, ex1 and ex1-b: none -> early return, several ->
\* early return with the double deduction, one -> filename check
ArchiveSearch(fc, nArch, nameOk, nextPc) ==
    IF nArch = 0 THEN
        /\ Deduct(fc, fc, 1)
        /\ flags' = SetFalse({"Filename Correct"})
        /\ finalScore' = TOTAL_POINTS - deductions'
        /\ gate' = "no_archive"
        /\ pc' = "returned"
    ELSE IF nArch > 1 THEN
        /\ Deduct(ManyArchivesCharge(fc), ManyArchivesCharge(fc), 1)
        /\ flags' = SetFalse({"Filename Correct"})
        /\ finalScore' = TOTAL_POINTS - deductions'
        /\ gate' = "many_archives"
        /\ pc' = "returned"
    ELSE IF ~nameOk THEN
        /\ Deduct(fc, fc, 1)
        /\ flags' = SetFalse({"Filename Correct"})
        /\ UNCHANGED <<finalScore, gate>>
        /\ pc' = nextPc
    ELSE
        /\ Deduct(0, 0, 0)
        /\ UNCHANGED <<flags, finalScore, gate>>
        /\ pc' = nextPc

\* search for .tgz files, early returns, filename check
Ex0_FindArchive ==
    /\ grader = "ex0" /\ mainPc = "call" /\ pc = "begin"
    /\ \E nTgz \in 0..2, nameOk \in BOOLEAN :
          ArchiveSearch(POINTS0.filename_correct, nTgz, nameOk, "extract")
    /\ UNCHANGED stages
    /\ UNCHANGED <<compiled, observed>>
    /\ MainUnchanged

\* os.makedirs(extract_path), extract_submission(), the extraction-failure return
Ex0_Extract ==
    /\ grader = "ex0" /\ mainPc = "call" /\ pc = "extract"
    /\ \E success \in BOOLEAN :
          IF ~success THEN
              LET all == POINTS0.content_structure + POINTS0.compilation_errors
                         + POINTS0.valgrind + POINTS0.output_correct
                         + POINTS0.comments_present + POINTS0.readme_correct
              IN /\ Deduct(all, all, 1)
                 /\ flags' = SetFalse({"Content Structure", "Compilation", "Valgrind",
                                       "Output Correct", "Comments Present"})
                 /\ finalScore' = TOTAL_POINTS - deductions'
                 /\ gate' = "extract_failed"
                 /\ stages' = stages \cup {"mkdir", "extract", "rmtree"}
                 /\ pc' = "returned"
          ELSE
              /\ Deduct(0, 0, 0)
              /\ UNCHANGED <<flags, finalScore, gate>>
              /\ stages' = stages \cup {"mkdir", "extract"}
              /\ pc' = "structure"
    /\ UNCHANGED <<compiled, observed>>
    /\ MainUnchanged

\* check_content_structure()
Ex0_Structure ==
    /\ grader = "ex0" /\ mainPc = "call" /\ pc = "structure"
    /\ \E contentOk \in BOOLEAN, anySource \in BOOLEAN :
          /\ contentOk => anySource
          /\ gate' = IF anySource THEN gate ELSE "no_sources"
          /\ IF ~contentOk THEN
                 /\ Deduct(POINTS0.content_structure, 0, 1)
                 /\ flags' = SetFalse({"Content Structure"})
                 /\ pc' = "score"
             ELSE
                 /\ Deduct(0, 0, 0)
                 /\ UNCHANGED flags
                 /\ pc' = "compile"
    /\ UNCHANGED <<finalScore, stages>>
    /\ UNCHANGED <<compiled, observed>>
    /\ MainUnchanged

\* a program that would run although it did not compile
Ex0_StageAfterCompileUngated(compilationOk) == "execute"

\* `if log['Compilation']:` valgrind and the program run only after a
\* successful compile; otherwise the comment check is next
Ex0_StageAfterCompile(compilationOk) ==
    IF compilationOk THEN "execute" ELSE "comments"

\* compile_code() (subprocess.run without a timeout) and the README format issue
Ex0_Compile ==
    /\ grader = "ex0" /\ mainPc = "call" /\ pc = "compile"
    /\ \E gccHangs \in BOOLEAN, returncode \in {0, 1}, errors \in BOOLEAN,
          warnings \in BOOLEAN, readmeFormatIssue \in BOOLEAN :
          IF gccHangs THEN
              /\ Deduct(0, 0, 0)
              /\ UNCHANGED flags
              /\ stages' = stages \cup {"compile"}
              /\ pc' = "blocked"
              /\ UNCHANGED observed
          ELSE
              LET failed == returncode # 0 \/ errors
                  dc == IF failed THEN POINTS0.compilation_errors
                        ELSE IF warnings THEN POINTS0.compilation_warnings ELSE 0
                  dr == IF readmeFormatIssue THEN POINTS0.readme_correct ELSE 0
                  n  == (IF failed THEN 1 ELSE 0) + (IF readmeFormatIssue THEN 1 ELSE 0)
              IN /\ Deduct(dc + dr, 0, n)
                 /\ flags' = IF failed THEN SetFalse({"Compilation"}) ELSE flags
                 /\ stages' = stages \cup {"compile"}
                 /\ pc' = Ex0_StageAfterCompile(~failed)
                 /\ observed' = observed
                      \cup (IF ~failed /\ ~warnings THEN {"clean_compile"} ELSE {})
                      \cup (IF ~readmeFormatIssue THEN {"readme_named"} ELSE {})
    /\ UNCHANGED finalScore
    /\ UNCHANGED <<compiled, gate>>
    /\ MainUnchanged

\* an output charge made whatever the run and the comparison gave
Ex0_OutputChargeAlways(execFailed, outputMatches) == POINTS0.output_correct

\* output_correct is charged for a run that failed or timed out, and once
\* more for an output that compare_output() rejects
Ex0_OutputCharge(execFailed, outputMatches) ==
    (IF execFailed THEN POINTS0.output_correct ELSE 0)
    + (IF ~outputMatches THEN POINTS0.output_correct ELSE 0)

\* run_valgrind(), execute_program(), compare_output()
Ex0_Execute ==
    /\ grader = "ex0" /\ mainPc = "call" /\ pc = "execute"
    /\ \E valgrindFailed \in BOOLEAN, execFailed \in BOOLEAN, outputMatches \in BOOLEAN :
          LET dv == IF valgrindFailed THEN POINTS0.valgrind ELSE 0
              do == Ex0_OutputCharge(execFailed, outputMatches)
              n  == (IF valgrindFailed THEN 1 ELSE 0) + (IF execFailed THEN 1 ELSE 0)
                    + (IF ~outputMatches THEN 1 ELSE 0)
          IN /\ Deduct(dv + do, 0, n)
             /\ flags' = SetFalse((IF valgrindFailed THEN {"Valgrind"} ELSE {})
                                  \cup (IF execFailed \/ ~outputMatches
                                        THEN {"Output Correct"} ELSE {}))
             /\ observed' = observed
                  \cup (IF ~execFailed THEN {"exit_zero"} ELSE {})
                  \cup (IF outputMatches THEN {"output_equal"} ELSE {})
    /\ stages' = stages \cup {"valgrind", "execute"}
    /\ pc' = "comments"
    /\ UNCHANGED finalScore
    /\ UNCHANGED <<compiled, gate>>
    /\ MainUnchanged

\* check_comments() and the README's first 10 lines
Ex0_Comments ==
    /\ grader = "ex0" /\ mainPc = "call" /\ pc = "comments"
    /\ \E commentsPresent \in BOOLEAN, readmeReadable \in BOOLEAN :
          LET dc == IF ~commentsPresent THEN POINTS0.comments_present ELSE 0
              dr == IF ~readmeReadable THEN POINTS0.readme_correct ELSE 0
              n  == (IF ~commentsPresent THEN 1 ELSE 0) + (IF ~readmeReadable THEN 1 ELSE 0)
          IN /\ Deduct(dc + dr, 0, n)
             /\ flags' = IF ~commentsPresent THEN SetFalse({"Comments Present"}) ELSE flags
             /\ observed' = observed \cup (IF readmeReadable THEN {"readme_read"} ELSE {})
    /\ pc' = "score"
    /\ UNCHANGED <<finalScore, stages>>
    /\ UNCHANGED <<compiled, gate>>
    /\ MainUnchanged

\* a final return that leaves the working directory where it is
Ex01_NoCleanup(g, st) == st

\* shutil.rmtree(extract_path, ignore_errors=True) before the final return of
\* ex0 and ex1; ex1-b extracted into the submission folder and removes nothing
Ex01_Cleanup(g, st) == IF g = "ex1b" THEN st ELSE st \cup {"rmtree"}

\* "Calculate Final Score" and clean up (ex0, ex1, ex1-b: no clamp at 0)
Ex01_Score ==
    /\ grader \in {"ex0", "ex1", "ex1b"} /\ mainPc = "call" /\ pc = "score"
    /\ pointsDeducted' = deductions
    /\ finalScore' = TOTAL_POINTS - deductions
    /\ stages' = Ex01_Cleanup(grader, stages)
    /\ pc' = "returned"
    /\ UNCHANGED <<deductions, issues, flags>>
    /\ UNCHANGED <<compiled, gate, observed>>
    /\ MainUnchanged


(***************************************************************************)
(* ex1: process_submission                                                 *)
(***************************************************************************)
\* expected .c files that are compiled besides ex1a.c and ex1b.c
EX1_EXTRA == NumSources("ex1") - 2

Ex1_FindArchive ==
    /\ grader = "ex1" /\ mainPc = "call" /\ pc = "begin"
    /\ \E nTgz \in 0..2, nameOk \in BOOLEAN :
          ArchiveSearch(POINTS1.filename_correct, nTgz, nameOk, "extract")
    /\ UNCHANGED stages
    /\ UNCHANGED <<compiled, observed>>
    /\ MainUnchanged

\* extraction; on failure every category is charged to `deductions`, but the
\* three compilation categories are not added to 'Points Deducted'
Ex1_Extract ==
    /\ grader = "ex1" /\ mainPc = "call" /\ pc = "extract"
    /\ \E success \in BOOLEAN :
          IF ~success THEN
              LET comp == POINTS1.compilation_errors_ex1a + POINTS1.compilation_errors_ex1b
                          + POINTS1.compilation_errors_extra
                  rest == POINTS1.content_structure + POINTS1.valgrind
                          + POINTS1.output_correct_ex1a + POINTS1.output_correct_ex1b
                          + POINTS1.comments_present * NumSources("ex1")
                          + POINTS1.readme_correct
              IN /\ Deduct(comp + rest, rest, 1)
                 /\ flags' = SetFalse({"Content Structure", "Compilation", "Valgrind",
                                       "Output Correct", "Comments Present"})
                 /\ finalScore' = TOTAL_POINTS - deductions'
                 /\ gate' = "extract_failed"
                 /\ stages' = stages \cup {"mkdir", "extract", "rmtree"}
                 /\ pc' = "returned"
          ELSE
              /\ Deduct(0, 0, 0)
              /\ UNCHANGED <<flags, finalScore, gate>>
              /\ stages' = stages \cup {"mkdir", "extract"}
              /\ pc' = "structure"
    /\ UNCHANGED <<compiled, observed>>
    /\ MainUnchanged

Ex1_Structure ==
    /\ grader = "ex1" /\ mainPc = "call" /\ pc = "structure"
    /\ \E contentOk \in BOOLEAN, anySource \in BOOLEAN :
          /\ contentOk => anySource
          /\ gate' = IF anySource THEN gate ELSE "no_sources"
          /\ IF ~contentOk THEN
                 /\ Deduct(POINTS1.content_structure, 0, 1)
                 /\ flags' = SetFalse({"Content Structure"})
                 /\ pc' = "score"
             ELSE
                 /\ Deduct(0, 0, 0)
                 /\ UNCHANGED flags
                 /\ pc' = "compile"
    /\ UNCHANGED <<finalScore, stages>>
    /\ UNCHANGED <<compiled, observed>>
    /\ MainUnchanged

\* the compile loop over c_files (compile_code has no timeout) and the README
\* format issue
Ex1_Compile ==
    /\ grader = "ex1" /\ mainPc = "call" /\ pc = "compile"
    /\ \E gccHangs \in BOOLEAN, failA \in BOOLEAN, failB \in BOOLEAN,
          failExtra \in 0..EX1_EXTRA, allWarn \in BOOLEAN,
          readmeFormatIssue \in BOOLEAN :
          IF gccHangs THEN
              /\ Deduct(0, 0, 0)
              /\ UNCHANGED flags
              /\ pc' = "blocked"
          ELSE
              LET nFail == (IF failA THEN 1 ELSE 0) + (IF failB THEN 1 ELSE 0) + failExtra
                  nOk   == NumSources("ex1") - nFail
                  df == POINTS1.compilation_errors_ex1a * (IF failA THEN 1 ELSE 0)
                        + POINTS1.compilation_errors_ex1b * (IF failB THEN 1 ELSE 0)
                        + POINTS1.compilation_errors_extra * failExtra
                  dw == IF allWarn THEN POINTS1.compilation_warnings * nOk ELSE 0
                  dr == IF readmeFormatIssue THEN POINTS1.readme_correct ELSE 0
              IN /\ Deduct(df + dw + dr, df, nFail + (IF readmeFormatIssue THEN 1 ELSE 0))
                 /\ flags' = IF failA \/ failB THEN SetFalse({"Compilation"}) ELSE flags
                 /\ pc' = IF failA \/ failB THEN "score" ELSE "execute"
    /\ stages' = stages \cup {"compile"}
    /\ UNCHANGED finalScore
    /\ UNCHANGED <<compiled, gate, observed>>
    /\ MainUnchanged

\* valgrind on ex1a, execution of ex1a and ex1b, leftover-process check, and
\* (inside the same block) the comment check and the README capture
\* the two `ps -ef` snapshots are taken one after the other once ex1b has
\* run; a line counts as a leftover process when it is in the second
\* snapshot only and holds the name of one of the expected programs,
\* whichever submission the process belongs to
PsFindingsOwn(ownChildren) ==
    {"none", "failed"} \cup (IF ownChildren THEN {"found"} ELSE {})

PsFindings(ownChildren) ==
    {"none", "failed"} \cup (IF ownChildren \/ lingering THEN {"found"} ELSE {})

Ex1_Execute ==
    /\ grader = "ex1" /\ mainPc = "call" /\ pc = "execute"
    /\ \E valgrindFailed \in BOOLEAN, failedA \in BOOLEAN, failedB \in BOOLEAN,
          ownChildren \in BOOLEAN, noComments \in 0..NumSources("ex1"),
          readmeReadable \in BOOLEAN :
          \E ps \in PsFindings(ownChildren) :
          LET B(x) == IF x THEN 1 ELSE 0
              leftover == ps # "none"
              d == POINTS1.valgrind * B(valgrindFailed)
                   + POINTS1.output_correct_ex1a * B(failedA)
                   + POINTS1.output_correct_ex1b * B(failedB)
                   + POINTS1.child_processes * B(leftover)
                   + POINTS1.comments_present * noComments
                   + POINTS1.readme_correct * B(~readmeReadable)
              n == B(valgrindFailed) + B(failedA) + B(failedB) + B(leftover)
                   + noComments + B(~readmeReadable)
          IN /\ Deduct(d, 0, n)
             /\ flags' = SetFalse((IF valgrindFailed THEN {"Valgrind"} ELSE {})
                                  \cup (IF failedA \/ failedB THEN {"Output Correct"} ELSE {})
                                  \cup (IF noComments > 0 THEN {"Comments Present"} ELSE {}))
             /\ observed' = observed
                              \cup (IF ownChildren THEN {"own_children"} ELSE {})
                              \cup (IF ps = "found" THEN {"children_found"} ELSE {})
             /\ lingering' = (lingering \/ ownChildren)
    /\ stages' = stages \cup {"valgrind", "execute", "ps", "comments"}
    /\ pc' = "score"
    /\ UNCHANGED finalScore
    /\ UNCHANGED <<compiled, gate>>
    /\ UNCHANGED <<grader, gccVersionOk, mainPc, subIdx, summary, summaryWritten>>
    /\ HarnessIdle


(***************************************************************************)
(* ex1-b: process_submission                                               *)
(***************************************************************************)
\* archive search; a wrong filename leaves archive_type None, so extraction,
\* structure check and compilation are skipped
Ex1b_FindArchive ==
    /\ grader = "ex1b" /\ mainPc = "call" /\ pc = "begin"
    /\ \E nArch \in 0..2, nameOk \in BOOLEAN :
          ArchiveSearch(POINTS1B.filename_correct, nArch, nameOk,
                        IF nameOk THEN "extract" ELSE "comments")
    /\ UNCHANGED stages
    /\ UNCHANGED <<compiled, observed>>
    /\ MainUnchanged

\* the return of ex1-b on a failed extraction
Ex1b_ExtractionFailure ==
    LET comp == POINTS1B.compilation_errors_str_str
                + POINTS1B.compilation_errors_count
                + POINTS1B.compilation_errors_unique_str
                + POINTS1B.compilation_errors_shell
    IN /\ Deduct(POINTS1B.content_structure + comp + POINTS1B.execution_errors,
                 POINTS1B.content_structure, 1)
       /\ flags' = SetFalse({"Content Structure", "Compilation"})
       /\ finalScore' = TOTAL_POINTS - deductions'
       /\ gate' = "extract_failed"
       /\ pc' = "returned"

\* extract_submission() into the submission folder and the failure return
Ex1b_Extract ==
    /\ grader = "ex1b" /\ mainPc = "call" /\ pc = "extract"
    /\ \E success \in BOOLEAN :
          IF ~success THEN
              Ex1b_ExtractionFailure
          ELSE
              /\ Deduct(0, 0, 0)
              /\ UNCHANGED <<flags, finalScore, gate>>
              /\ pc' = "structure"
    /\ stages' = stages \cup {"extract"}
    /\ UNCHANGED <<compiled, observed>>
    /\ MainUnchanged

Ex1b_Structure ==
    /\ grader = "ex1b" /\ mainPc = "call" /\ pc = "structure"
    /\ \E contentOk \in BOOLEAN, anySource \in BOOLEAN :
          /\ contentOk => anySource
          /\ gate' = IF anySource THEN gate ELSE "no_sources"
          /\ IF ~contentOk THEN
                 /\ Deduct(POINTS1B.content_structure, 0, 1)
                 /\ flags' = SetFalse({"Content Structure"})
                 /\ pc' = "comments"
             ELSE
                 /\ Deduct(0, 0, 0)
                 /\ UNCHANGED flags
                 /\ pc' = "compile"
    /\ UNCHANGED <<finalScore, stages>>
    /\ UNCHANGED <<compiled, observed>>
    /\ MainUnchanged

\* compile loop (compile_code has no timeout), README format issue, and the
\* execution of the shell when every file compiled
Ex1b_Compile ==
    /\ grader = "ex1b" /\ mainPc = "call" /\ pc = "compile"
    /\ \E gccHangs \in BOOLEAN, nFail \in 0..NumSources("ex1b"), allWarn \in BOOLEAN,
          readmeFormatIssue \in BOOLEAN, execFailed \in BOOLEAN :
          IF gccHangs THEN
              /\ Deduct(0, 0, 0)
              /\ UNCHANGED flags
              /\ stages' = stages \cup {"compile"}
              /\ pc' = "blocked"
          ELSE
              LET df == POINTS1B.compilation_errors_shell * nFail
                  dw == IF allWarn
                        THEN POINTS1B.compilation_warnings * (NumSources("ex1b") - nFail)
                        ELSE 0
                  dr == IF readmeFormatIssue THEN POINTS1B.readme_correct ELSE 0
                  de == IF nFail = 0 /\ execFailed THEN POINTS1B.execution_errors ELSE 0
              IN /\ Deduct(df + dw + dr + de, df,
                           nFail + (IF readmeFormatIssue THEN 1 ELSE 0))
                 /\ flags' = IF nFail > 0 THEN SetFalse({"Compilation"}) ELSE flags
                 /\ stages' = stages \cup {"compile"}
                                \cup (IF nFail = 0 THEN {"execute"} ELSE {})
                 /\ pc' = "comments"
    /\ UNCHANGED finalScore
    /\ UNCHANGED <<compiled, gate, observed>>
    /\ MainUnchanged

\* the comment check over expected_c_files and the README capture, on every
\* path that did not return early
Ex1b_Comments ==
    /\ grader = "ex1b" /\ mainPc = "call" /\ pc = "comments"
    /\ \E noComments \in 0..NumSources("ex1b"), readmeOk \in BOOLEAN :
          LET d == POINTS1B.comments_present * noComments
                   + (IF readmeOk THEN 0 ELSE POINTS1B.readme_correct)
          IN /\ Deduct(d, 0, noComments + (IF readmeOk THEN 0 ELSE 1))
             /\ flags' = IF noComments > 0 THEN SetFalse({"Comments Present"}) ELSE flags
    /\ stages' = stages \cup {"comments"}
    /\ pc' = "score"
    /\ UNCHANGED finalScore
    /\ UNCHANGED <<compiled, gate, observed>>
    /\ MainUnchanged

(***************************************************************************)
(* ex2: process_submission                                                 *)
(***************************************************************************)
ArchiveKinds == {"none", "supported", "supported_bad", "rar", "rar_bad"}

\* folder-name pattern, archive search and extraction with the early returns
\* (which leave 'Final Score' as initialised)
Ex2_Archive ==
    /\ grader = "ex2" /\ mainPc = "call" /\ pc = "begin"
    /\ \E folderOk \in BOOLEAN, archive \in ArchiveKinds :
          /\ LET df == IF folderOk THEN 0 ELSE FolderNameDeduction
                 nf == IF folderOk THEN 0 ELSE 1
             IN IF archive = "supported" THEN
                    /\ Deduct(df, 0, nf)
                    /\ pc' = "files"
                ELSE IF archive = "rar" THEN
                    /\ Deduct(df + POINTS2.archive_format, POINTS2.archive_format, nf + 1)
                    /\ pc' = "files"
                ELSE
                    /\ Deduct(df + POINTS2.archive_format, POINTS2.archive_format, nf + 1)
                    /\ pc' = "returned"
          /\ stages' = IF archive = "none" THEN stages ELSE stages \cup {"extract"}
          /\ gate' = IF archive = "none" THEN "no_archive"
                     ELSE IF archive \in {"supported_bad", "rar_bad"} THEN "extract_failed"
                     ELSE gate
    /\ UNCHANGED <<finalScore, flags>>
    /\ UNCHANGED <<compiled, observed>>
    /\ MainUnchanged

\* verify_filenames() and check_readme_extension()
Ex2_Files ==
    /\ grader = "ex2" /\ mainPc = "call" /\ pc = "files"
    /\ \E filenamesOk \in BOOLEAN, hasTxtExt \in BOOLEAN :
          LET d == (IF filenamesOk THEN 0 ELSE POINTS2.filename_correct)
                   + (IF hasTxtExt THEN POINTS2.readme_txt_extension ELSE 0)
              n == (IF filenamesOk THEN 0 ELSE 1) + (IF hasTxtExt THEN 1 ELSE 0)
          IN /\ Deduct(d, d, n)
             /\ flags' = IF filenamesOk THEN flags ELSE SetFalse({"Filename Correct"})
    /\ pc' = "compile"
    /\ UNCHANGED <<finalScore, stages>>
    /\ UNCHANGED <<compiled, gate, observed>>
    /\ MainUnchanged

\* ex2a.c and ex2b.c: missing or failing to compile (a compile timeout is a
\* failure) costs 10 each; then comments and README
Ex2_Compile ==
    /\ grader = "ex2" /\ mainPc = "call" /\ pc = "compile"
    /\ \E presentA \in BOOLEAN, presentB \in BOOLEAN, compilesA \in BOOLEAN,
          compilesB \in BOOLEAN, anyComments \in BOOLEAN, readmeFound \in BOOLEAN :
          LET B(x) == IF x THEN 1 ELSE 0
              okA == presentA /\ compilesA
              okB == presentB /\ compilesB
              d == CompileFailDeduction * (B(~okA) + B(~okB))
                   + POINTS2.comments_missing * B(~anyComments)
                   + POINTS2.readme_txt_extension * B(~readmeFound)
              n == B(~okA) + B(~okB) + B(~anyComments) + B(~readmeFound)
          IN /\ Deduct(d, d, n)
             /\ flags' = SetFalse((IF okA /\ okB THEN {} ELSE {"Compilation"})
                                  \cup (IF anyComments THEN {} ELSE {"Comments Present"}))
             /\ compiled' = (IF okA THEN {"A"} ELSE {}) \cup (IF okB THEN {"B"} ELSE {})
             /\ pc' = "execute"
             /\ stages' = stages \cup {"comments"}
                            \cup (IF presentA \/ presentB THEN {"compile"} ELSE {})
             /\ gate' = IF presentA \/ presentB THEN gate ELSE "no_sources"
    /\ UNCHANGED finalScore
    /\ MainUnchanged
    /\ UNCHANGED observed


\* what the harness can record for one program run under a wrapper Process:
\* the wrapper ended within the join timeout, the join timed out, or the
\* harness never gets past queue.get_nowait()
RunOutcomes == {"joined", "outer_timeout", "stuck"}

\* Program A and Program B, each only if its source compiled; an outer
\* timeout costs 5 without an Issue
Ex2_Execute ==
    /\ grader = "ex2" /\ mainPc = "call" /\ pc = "execute"
    /\ \E outA \in RunOutcomes, outB \in RunOutcomes :
          LET ranA == "A" \in compiled
              ranB == "B" \in compiled /\ ~(ranA /\ outA = "stuck")
              stuck == (ranA /\ outA = "stuck") \/ (ranB /\ outB = "stuck")
              d == OuterTimeoutDeduction
                     * ((IF ranA /\ outA # "joined" THEN 1 ELSE 0)
                        + (IF ranB /\ outB # "joined" THEN 1 ELSE 0))
          IN /\ Deduct(d, d, 0)
             /\ stages' = stages \cup (IF ranA \/ ranB THEN {"execute"} ELSE {})
             /\ pc' = IF stuck THEN "blocked" ELSE "score"
    /\ UNCHANGED <<finalScore, flags, compiled, gate, observed>>
    /\ MainUnchanged

\* "Finalize scoring" of ex2, ex3, ex4 and ex5
Clamp_Score ==
    /\ grader \in {"ex2", "ex3", "ex4", "ex5"} /\ mainPc = "call" /\ pc = "score"
    /\ pointsDeducted' = deductions
    /\ finalScore' = Max(TOTAL_POINTS - deductions, 0)
    /\ pc' = "returned"
    /\ UNCHANGED <<deductions, issues, flags, stages, compiled, gate, observed>>
    /\ MainUnchanged


(***************************************************************************)
(* ex3: process_submission                                                 *)
(***************************************************************************)
\* folder-name pattern, archive search and extraction; a supported archive
\* that is neither TGZ nor ZIP costs archive_format and processing goes on
Ex3_Archive ==
    /\ grader = "ex3" /\ mainPc = "call" /\ pc = "begin"
    /\ \E folderOk \in BOOLEAN, archive \in ArchiveKinds, tgzOrZip \in BOOLEAN :
          /\ LET df == IF folderOk THEN 0 ELSE FolderNameDeduction
                 nf == IF folderOk THEN 0 ELSE 1
             IN IF archive = "supported" /\ tgzOrZip THEN
                    /\ Deduct(df, 0, nf)
                    /\ pc' = "files"
                ELSE IF archive \in {"supported", "rar"} THEN
                    /\ Deduct(df + POINTS3.archive_format, POINTS3.archive_format, nf + 1)
                    /\ pc' = "files"
                ELSE
                    /\ Deduct(df + POINTS3.archive_format, POINTS3.archive_format, nf + 1)
                    /\ pc' = "returned"
          /\ stages' = IF archive = "none" THEN stages ELSE stages \cup {"extract"}
          /\ gate' = IF archive = "none" THEN "no_archive"
                     ELSE IF archive \in {"supported_bad", "rar_bad"} THEN "extract_failed"
                     ELSE gate
    /\ UNCHANGED <<finalScore, flags, compiled>>
    /\ MainUnchanged
    /\ UNCHANGED observed

Ex3_Files ==
    /\ grader = "ex3" /\ mainPc = "call" /\ pc = "files"
    /\ \E filenamesOk \in BOOLEAN, hasTxtExt \in BOOLEAN :
          LET d == (IF filenamesOk THEN 0 ELSE POINTS3.filename_correct)
                   + (IF hasTxtExt THEN POINTS3.readme_txt_extension ELSE 0)
              n == (IF filenamesOk THEN 0 ELSE 1) + (IF hasTxtExt THEN 1 ELSE 0)
          IN /\ Deduct(d, d, n)
             /\ flags' = IF filenamesOk THEN flags ELSE SetFalse({"Filename Correct"})
    /\ pc' = "compile"
    /\ UNCHANGED <<finalScore, stages, compiled, gate, observed>>
    /\ MainUnchanged

\* what the loop does for a missing expected file, by the number of .c files
\* in the folder: `if len(c_files) >= 2` / `elif len(c_files) > 2` / `else`
Ex3_MissingBranch(nC) ==
    IF nC >= 2 THEN "replace" ELSE IF nC > 2 THEN "extra" ELSE "missing"

\* the loop over sources: an expected file is compiled; for a missing one the
\* other .c files are compiled when at least two .c files exist, and recording
\* a failed compile of such a file indexes log_entry["Compilation Errors"]
\* with a key it does not have
Ex3_Compile ==
    /\ grader = "ex3" /\ mainPc = "call" /\ pc = "compile"
    /\ \E presentA \in BOOLEAN, presentB \in BOOLEAN, okA \in BOOLEAN, okB \in BOOLEAN,
          nOther \in 0..2, otherCompiles \in BOOLEAN :
          LET B(x) == IF x THEN 1 ELSE 0
              nMissing == B(~presentA) + B(~presentB)
              nC == B(presentA) + B(presentB) + nOther
              branch == Ex3_MissingBranch(nC)
              heuristic == nMissing > 0 /\ branch # "missing" /\ nOther > 0
              keyError == heuristic /\ ~otherCompiles
              gccRuns == presentA \/ presentB \/ heuristic
              d == CompileFailDeduction * (B(presentA /\ ~okA) + B(presentB /\ ~okB))
                   + (IF branch = "replace"
                      THEN (IF nOther > 0 THEN POINTS3.filename_correct * nMissing ELSE 0)
                      ELSE IF branch = "extra"
                      THEN POINTS3.extra_c_files * nOther * nMissing
                      ELSE CompileFailDeduction * nMissing)
              n == B(presentA /\ ~okA) + B(presentB /\ ~okB)
                   + (IF branch = "replace" THEN (IF nOther > 0 THEN nMissing ELSE 0)
                      ELSE nMissing)
          IN /\ stages' = (IF gccRuns THEN stages \cup {"compile"} ELSE stages)
             /\ IF keyError THEN
                    /\ Raise
                    /\ gate' = IF presentA \/ presentB THEN gate ELSE "no_sources"
                    /\ UNCHANGED <<grader, gccVersionOk, subIdx, summary,
                                   summaryWritten, lingering, deductions,
                                   pointsDeducted, issues, flags, compiled>>
                ELSE
                    /\ Deduct(d, d, n)
                    /\ flags' = IF presentA /\ okA /\ presentB /\ okB THEN flags
                                ELSE SetFalse({"Compilation"})
                    /\ compiled' = (IF presentA /\ okA THEN {"A"} ELSE {})
                                   \cup (IF presentB /\ okB THEN {"B"} ELSE {})
                    /\ pc' = "comments"
                    /\ gate' = IF presentA \/ presentB THEN gate ELSE "no_sources"
                    /\ MainUnchanged
             /\ observed' = observed
                  \cup (IF nMissing > 0 /\ nC > 2 THEN {"many_c_files"} ELSE {})
                  \cup (IF nMissing > 0 /\ branch = "extra"
                        THEN {"extra_c_reported"} ELSE {})
    /\ UNCHANGED finalScore

\* comments in both sources missing, README missing
Ex3_Comments ==
    /\ grader = "ex3" /\ mainPc = "call" /\ pc = "comments"
    /\ \E anyComments \in BOOLEAN, readmeFound \in BOOLEAN :
          LET d == (IF anyComments THEN 0 ELSE POINTS3.comments_missing)
                   + (IF readmeFound THEN 0 ELSE POINTS3.readme_txt_extension)
              n == (IF anyComments THEN 0 ELSE 1) + (IF readmeFound THEN 0 ELSE 1)
          IN /\ Deduct(d, d, n)
             /\ flags' = IF anyComments THEN flags ELSE SetFalse({"Comments Present"})
    /\ stages' = stages \cup {"comments"}
    /\ pc' = "execute"
    /\ UNCHANGED <<finalScore, compiled, gate, observed>>
    /\ MainUnchanged

\* Programs A and B, each only if its executable exists
Ex3_Execute ==
    /\ grader = "ex3" /\ mainPc = "call" /\ pc = "execute"
    /\ \E outA \in RunOutcomes, outB \in RunOutcomes,
          existsA \in {x \in BOOLEAN : "A" \in compiled => x},
          existsB \in {x \in BOOLEAN : "B" \in compiled => x} :
          \* gcc has just written the executable of a source that compiled
          LET ranA == existsA
              ranB == existsB /\ ~(ranA /\ outA = "stuck")
              stuck == (ranA /\ outA = "stuck") \/ (ranB /\ outB = "stuck")
              d == OuterTimeoutDeduction
                     * ((IF ranA /\ outA # "joined" THEN 1 ELSE 0)
                        + (IF ranB /\ outB # "joined" THEN 1 ELSE 0))
          IN /\ Deduct(d, d, 0)
             /\ stages' = stages \cup (IF ranA \/ ranB THEN {"execute"} ELSE {})
             /\ pc' = IF stuck THEN "blocked" ELSE "score"
    /\ UNCHANGED <<finalScore, flags, compiled, gate, observed>>
    /\ MainUnchanged


(***************************************************************************)
(* ex4 and ex5: process_submission (the two files agree up to the names    *)
(* and number of the expected sources until the execution phase)           *)
(***************************************************************************)
Is45 == grader \in {"ex4", "ex5"}

\* folder-name pattern (deduction without 'Points Deducted'), archive search
\* and extraction; both early returns leave 'Final Score' as initialised
Ex45_Archive ==
    /\ Is45 /\ mainPc = "call" /\ pc = "begin"
    /\ \E folderOk \in BOOLEAN, archive \in {"none", "supported", "supported_bad"},
          tgzOrZip \in BOOLEAN :
          /\ LET df == IF folderOk THEN 0 ELSE FolderNameDeduction
                 nf == IF folderOk THEN 0 ELSE 1
             IN IF archive = "supported" /\ tgzOrZip THEN
                    /\ Deduct(df, 0, nf)
                    /\ pc' = "files"
                ELSE IF archive = "supported" THEN
                    /\ Deduct(df + POINTS45.archive_format, POINTS45.archive_format, nf + 1)
                    /\ pc' = "files"
                ELSE
                    /\ Deduct(df + POINTS45.archive_format, POINTS45.archive_format, nf + 1)
                    /\ pc' = "returned"
          /\ stages' = IF archive = "none" THEN stages ELSE stages \cup {"extract"}
          /\ gate' = IF archive = "none" THEN "no_archive"
                     ELSE IF archive \in {"supported_bad", "rar_bad"} THEN "extract_failed"
                     ELSE gate
    /\ UNCHANGED <<finalScore, flags, compiled>>
    /\ MainUnchanged
    /\ UNCHANGED observed

\* verify_files() (10 per missing or wrongly named file, no Issue) and README
Ex45_Files ==
    /\ Is45 /\ mainPc = "call" /\ pc = "files"
    /\ \E nAbsent \in 0..NumSources(grader), readme \in {"ok", "txt", "missing"} :
          LET dr == IF readme = "ok" THEN 0 ELSE POINTS45.readme_txt_extension
              d == CompileFailDeduction * nAbsent + dr
          IN /\ Deduct(d, d, IF readme = "ok" THEN 0 ELSE 1)
             /\ flags' = IF nAbsent = 0 THEN flags ELSE SetFalse({"Filename Correct"})
             \* the expected sources that are present under their own name
             /\ compiled' = 1..(NumSources(grader) - nAbsent)
             /\ gate' = IF nAbsent = NumSources(grader) THEN "no_sources" ELSE gate
    /\ pc' = "compile"
    /\ UNCHANGED <<finalScore, stages>>
    /\ MainUnchanged
    /\ UNCHANGED observed

\* the compile loop (10 per source that is absent or fails; a compile timeout
\* is a failure) and the comment check on the manager files
Ex45_Compile ==
    /\ Is45 /\ mainPc = "call" /\ pc = "compile"
    /\ \E nFail \in 0..Cardinality(compiled), managerComments \in BOOLEAN :
          LET nAbsent == NumSources(grader) - Cardinality(compiled)
              d == CompileFailDeduction * (nAbsent + nFail)
                   + (IF managerComments THEN 0 ELSE POINTS45.comments_missing)
          IN /\ Deduct(d, d, nAbsent + nFail + (IF managerComments THEN 0 ELSE 1))
             /\ flags' = SetFalse((IF nAbsent + nFail > 0 THEN {"Compilation"} ELSE {})
                                  \cup (IF managerComments THEN {} ELSE {"Comments Present"}))
             /\ compiled' = 1..(Cardinality(compiled) - nFail)
    /\ stages' = stages \cup {"comments"}
                   \cup (IF compiled # {} THEN {"compile"} ELSE {})
    /\ UNCHANGED <<gate, observed>>
    /\ pc' = "execute"
    /\ UNCHANGED finalScore
    /\ MainUnchanged

\* the execution phase of ex4 as the verdict sees it: no deduction; the run
\* either never gets past a queue.get_nowait(), or reaches the teardown of the
\* servers, whose SIGINT to the wrapper's process group raises
\* KeyboardInterrupt in the grader
Ex4_Execute ==
    /\ grader = "ex4" /\ mainPc = "call" /\ pc = "execute"
    /\ \E stuck \in BOOLEAN :
          IF stuck THEN
              /\ pc' = "blocked"
              /\ UNCHANGED mainPc
              /\ HarnessIdle
          ELSE Raise
    /\ stages' = stages \cup {"execute"}
    /\ UNCHANGED <<grader, gccVersionOk, subIdx, summary, summaryWritten, lingering,
                   deductions,
                   pointsDeducted, finalScore, issues, flags, compiled, gate, observed>>

\* the execution phase of ex5 as the verdict sees it: sigint_handler keeps the
\* grader going through the teardown
Ex5_Execute ==
    /\ grader = "ex5" /\ mainPc = "call" /\ pc = "execute"
    /\ \E stuck \in BOOLEAN : pc' = IF stuck THEN "blocked" ELSE "score"
    /\ stages' = stages \cup {"execute"}
    /\ UNCHANGED <<deductions, pointsDeducted, finalScore, issues, flags, compiled,
                   gate, observed>>
    /\ MainUnchanged

(***************************************************************************)
(* The execution harness: wrapper Processes, student executables, queues   *)
(***************************************************************************)
SETTLE == 2          \* time.sleep(2) between the roles of a topology
JOIN_SLACK == 10     \* join(timeout=TIMEOUT_EXECUTION + 10)
PROMPTS == 10        \* ex2 run_program_a: for iteration in range(10)
PAUSE == 1           \* ex2 run_program_a: time.sleep(1) in every iteration
B_TIMEOUT == 120     \* ex2 run_program_b: subprocess.run(timeout=120)
B_JOIN == 130        \* ex2: proc_b.join(timeout=130)

\* TIMEOUT_EXECUTION of the grader that is running
TIMEOUT_EXECUTION == IF grader = "ex5" THEN 25 ELSE 60

GroupRoles == <<"mgr", "p0", "p1">>
ServerRoles == <<"srv1", "srv2">>
Roles == {"mgr", "p0", "p1", "srv1", "srv2", "front", "a", "b"}

\* the strings that travel through a queue or end up in 'Execution Outputs'
Completed == "Output and Exit Code"
ExecTimeout == "Execution Timeout"
ExecError == "Execution Error"
TimedOutStr == "Execution timed out."
NoOutput == "No Output"

\* what a student's program can do: the executable may be missing; it runs
\* for `dur` seconds or never ends; its captured output may exceed what the
\* queue's pipe takes without a reader
Durations == {ShortRun, TIMEOUT_EXECUTION, TIMEOUT_EXECUTION + 1}
Behaviours ==
    {b \in [exists : BOOLEAN, never : BOOLEAN, dur : Durations, big : BOOLEAN,
            latency : 0..MaxLatency] :
        \* fields that cannot matter are kept at one value
        /\ ~b.exists => (~b.never /\ b.dur = ShortRun /\ ~b.big)
        /\ b.never => (b.dur = ShortRun /\ ~b.big)
        /\ b.dur > TIMEOUT_EXECUTION => ~b.big}
NoBehaviour == [exists |-> FALSE, never |-> FALSE, dur |-> 0, big |-> FALSE,
                latency |-> 0]

WrapperAlive(r) == wst[r] \in {"starting", "running", "dialogue", "flushing"}

\* the entry of expected_sources a role of the group is built from: the
\* manager from the first (ex4a1.c), both participants from the second (ex4a2.c)
SourceOf(r) == IF r = "mgr" THEN 1 ELSE 2

\* start_proc(): q = Queue(); p = Process(target=run_program, ...); p.start()
StartProc(w, e, l, b, r, bh) ==
    [wst |-> [w EXCEPT ![r] = "starting"],
     launchAt |-> [l EXCEPT ![r] = now + bh.latency],
     beh |-> [b EXCEPT ![r] = bh]]

\* the times at which something happens without the harness doing anything
LaunchDue(r) == wst[r] = "starting" /\ launchAt[r] = now
ExitDue(r) == est[r] = "running" /\ ~beh[r].never /\ eStart[r] + beh[r].dur = now
InnerTimeout(r) == IF r = "b" THEN B_TIMEOUT ELSE TIMEOUT_EXECUTION
InnerTimeoutDue(r) ==
    wst[r] = "running" /\ est[r] = "running" /\ eStart[r] + InnerTimeout(r) = now
\* run_program_a: a readline() or the final wait() returns because the child
\* has ended, or the final wait(timeout=TIMEOUT_EXECUTION + 10) expires
DialogueWaitEnd == eStart["a"] + PROMPTS * PAUSE + TIMEOUT_EXECUTION + JOIN_SLACK
DialogueDue ==
    /\ wst["a"] = "dialogue"
    /\ est["a"] # "running" \/ (beh["a"].talks /\ DialogueWaitEnd = now)
ProcessEventDue ==
    \/ \E r \in Roles : LaunchDue(r) \/ ExitDue(r) \/ InnerTimeoutDue(r)
    \/ DialogueDue

\* run_program up to subprocess.run: os.chmod raises for a missing executable
\* ("Execution Error: ..." is put and the wrapper ends); otherwise the
\* student executable starts
W_Launch(r) ==
    /\ LaunchDue(r)
    /\ IF beh[r].exists THEN
           /\ wst' = [wst EXCEPT ![r] = "running"]
           /\ est' = [est EXCEPT ![r] = "running"]
           /\ eStart' = [eStart EXCEPT ![r] = now]
           /\ UNCHANGED pipe
       ELSE
           /\ wst' = [wst EXCEPT ![r] = "exited"]
           /\ pipe' = [pipe EXCEPT ![r] = ExecError]
           /\ UNCHANGED <<est, eStart>>
    /\ UNCHANGED <<now, hpc, hTimer, joinIdx, launchAt, beh, outputs>>
    /\ UNCHANGED <<scoreVars, srvVars, rerunVars>>

\* the student executable ends by itself; a wrapper still waiting in
\* subprocess.run reads the output file and puts the message; its exit then
\* waits until the queue's feeder thread has written the whole message
E_Exit(r) ==
    /\ ExitDue(r)
    /\ est' = [est EXCEPT ![r] = "exited"]
    /\ IF wst[r] = "running" THEN
           IF beh[r].big THEN
               /\ wst' = [wst EXCEPT ![r] = "flushing"]
               /\ pipe' = [pipe EXCEPT ![r] = "partial"]
           ELSE
               /\ wst' = [wst EXCEPT ![r] = "exited"]
               /\ pipe' = [pipe EXCEPT ![r] = Completed]
       ELSE UNCHANGED <<wst, pipe>>
    /\ UNCHANGED <<now, hpc, hTimer, joinIdx, launchAt, eStart, beh, outputs>>
    /\ UNCHANGED <<scoreVars, srvVars, rerunVars>>

\* subprocess.run(timeout=TIMEOUT_EXECUTION) expires: the child is killed and
\* waited for, TimeoutExpired is caught, "Execution Timeout" is put (the wait
\* loop looks for the child's exit before it looks at the clock)
W_InnerTimeout(r) ==
    /\ InnerTimeoutDue(r)
    /\ ~ExitDue(r)
    /\ est' = [est EXCEPT ![r] = "killed"]
    /\ wst' = [wst EXCEPT ![r] = "exited"]
    /\ pipe' = [pipe EXCEPT ![r] = ExecTimeout]
    /\ UNCHANGED <<now, hpc, hTimer, joinIdx, launchAt, eStart, beh, outputs>>
    /\ UNCHANGED <<scoreVars, srvVars, rerunVars>>


\* one pass of the join loop for role r:
\*   proc.join(timeout); if proc.is_alive(): proc.terminate(); [ex4: the label
\*   is set to "Execution timed out."]; q.put("Execution timed out.")
\*   try: res = q.get_nowait()  except: res = "No Output";  outputs[label] = res
\* terminate() signals the wrapper only.  get_nowait() on a pipe that holds
\* the head of a message whose writer was terminated waits for the rest of it;
\* get_nowait() right after the harness's own put() races with the feeder
\* thread (flushed or not).  The result is <<wst, pipe, outputs, stuck>>.
JoinAndRead(r, flushed) ==
    IF WrapperAlive(r) THEN
        IF pipe[r] = "partial" THEN
            [wst |-> [wst EXCEPT ![r] = "killed"],
             pipe |-> pipe,
             outputs |-> IF grader = "ex4" THEN [outputs EXCEPT ![r] = TimedOutStr]
                         ELSE outputs,
             stuck |-> TRUE]
        ELSE
            [wst |-> [wst EXCEPT ![r] = "killed"],
             pipe |-> [pipe EXCEPT ![r] = IF flushed THEN "empty" ELSE TimedOutStr],
             outputs |-> [outputs EXCEPT ![r] = IF flushed THEN TimedOutStr ELSE NoOutput],
             stuck |-> FALSE]
    ELSE
        [wst |-> wst,
         pipe |-> [pipe EXCEPT ![r] = "empty"],
         outputs |-> [outputs EXCEPT ![r] = IF pipe[r] = "empty" THEN NoOutput ELSE pipe[r]],
         stuck |-> FALSE]

\* the harness gets to run: nothing else is due at this instant
HarnessTurn == ~ProcessEventDue

\* join(timeout) on role r returns: the wrapper has ended or the time is up
JoinReturns(r) == ~WrapperAlive(r) \/ now >= hTimer

(***************************************************************************)
(* Manager + 2 participants (ex4 Programs A and B, ex5 Exercise 5A)        *)
(***************************************************************************)
\* start_proc(manager); time.sleep(2)
G_StartManager ==
    /\ hpc = "g_start_mgr"
    /\ \E bh \in Behaviours :
          LET st == StartProc(wst, est, launchAt, beh, "mgr", bh)
          IN /\ SourceOf("mgr") \in compiled => bh.exists
             /\ wst' = st.wst
             /\ launchAt' = st.launchAt
             /\ beh' = st.beh
    /\ hTimer' = now + SETTLE
    /\ hpc' = "g_settle"
    /\ UNCHANGED <<now, joinIdx, est, eStart, pipe, outputs>>
    /\ UNCHANGED <<scoreVars, srvVars, rerunVars>>

\* after the sleep: start_proc(participant 0); start_proc(participant 1);
\* the loop begins with join(timeout=TIMEOUT_EXECUTION + 10) on the manager
G_StartParticipants ==
    /\ hpc = "g_settle"
    /\ now >= hTimer
    /\ HarnessTurn
    /\ \E bh0 \in Behaviours, bh1 \in Behaviours :
          LET s0 == StartProc(wst, est, launchAt, beh, "p0", bh0)
              s1 == StartProc(s0.wst, est, s0.launchAt, s0.beh, "p1", bh1)
          IN \* both participants are the one executable ex4a2 / ex5a2
             /\ bh0.exists = bh1.exists
             /\ SourceOf("p0") \in compiled => bh0.exists
             /\ wst' = s1.wst
             /\ launchAt' = s1.launchAt
             /\ beh' = s1.beh
    /\ hTimer' = now + TIMEOUT_EXECUTION + JOIN_SLACK
    /\ joinIdx' = 1
    /\ hpc' = "g_join"
    /\ UNCHANGED <<now, est, eStart, pipe, outputs>>
    /\ UNCHANGED <<scoreVars, srvVars, rerunVars>>

\* one pass of the loop over manager, participant 0, participant 1
G_Collect ==
    /\ hpc = "g_join"
    /\ HarnessTurn
    /\ JoinReturns(GroupRoles[joinIdx])
    /\ \E flushed \in BOOLEAN :
          LET res == JoinAndRead(GroupRoles[joinIdx], flushed)
          IN /\ wst' = res.wst
             /\ pipe' = res.pipe
             /\ outputs' = res.outputs
             /\ IF res.stuck THEN
                    /\ hpc' = "stuck"
                    /\ UNCHANGED <<joinIdx, hTimer>>
                ELSE IF joinIdx < Len(GroupRoles) THEN
                    /\ joinIdx' = joinIdx + 1
                    /\ hTimer' = now + TIMEOUT_EXECUTION + JOIN_SLACK
                    /\ UNCHANGED hpc
                ELSE
                    /\ hpc' = "g_done"
                    /\ UNCHANGED <<joinIdx, hTimer>>
    /\ UNCHANGED <<now, launchAt, est, eStart, beh>>
    /\ UNCHANGED <<scoreVars, srvVars, rerunVars>>

\* the harness is in a timed sleep / join / wait
HarnessTimed ==
    hpc \in {"g_settle", "g_join", "c_settle", "c_observe", "c_wait_front", "c_join",
             "s_join_a", "s_join_b"}

\* the harness can take its next step at this instant
HarnessReady ==
    \/ hpc \in {"g_start_mgr", "c_start", "c_teardown", "s_a", "s_b"}
    \/ hpc = "s_join_a" /\ JoinReturns("a")
    \/ hpc = "s_join_b" /\ JoinReturns("b")
    \/ hpc \in {"g_settle", "c_settle", "c_observe"} /\ now >= hTimer
    \/ hpc = "g_join" /\ JoinReturns(GroupRoles[joinIdx])
    \/ hpc = "c_join" /\ JoinReturns(ServerRoles[joinIdx])
    \/ hpc = "c_wait_front" /\ (est["front"] # "running" \/ now >= hTimer)

\* the next instants at which something is due
FutureTimes ==
    {launchAt[r] : r \in {x \in Roles : wst[x] = "starting"}}
    \cup {eStart[r] + beh[r].dur : r \in {x \in Roles : est[x] = "running" /\ ~beh[x].never}}
    \cup {eStart[r] + InnerTimeout(r) :
             r \in {x \in Roles : wst[x] = "running" /\ est[x] = "running"}}
    \cup (IF wst["a"] = "dialogue" /\ est["a"] = "running" /\ beh["a"].talks
          THEN {DialogueWaitEnd} ELSE {})
    \cup (IF HarnessTimed THEN {hTimer} ELSE {})

Min(S) == CHOOSE x \in S : \A y \in S : x <= y

\* time passes up to the next instant at which something is due
Tick ==
    /\ ~ProcessEventDue
    /\ ~HarnessReady
    /\ {t \in FutureTimes : t > now} # {}
    /\ now' = Min({t \in FutureTimes : t > now})
    /\ UNCHANGED <<hpc, hTimer, joinIdx, wst, launchAt, est, eStart, beh, pipe, outputs>>
    /\ UNCHANGED <<scoreVars, srvVars, rerunVars>>

(***************************************************************************)
(* Two servers and a frontend (ex4 Program C, ex5 Exercise 5B)             *)
(***************************************************************************)
OBSERVE == 2         \* time.sleep(2) while the frontend reads its input
INT_WAIT == 5        \* wait(timeout=5) / join(timeout=5) after the SIGINT

Terminated == "Terminated after test."
FrontSummary == "Output (first 2 lines)"

\* a server: missing, or ending by itself early, or running until signalled;
\* on SIGINT it ends or carries on
ServerBehaviours ==
    {b \in [exists : BOOLEAN, never : BOOLEAN, dur : {ShortRun}, big : BOOLEAN,
            latency : 0..MaxLatency, onInt : {"dies", "ignores"}] :
        /\ ~b.exists => (~b.never /\ ~b.big)
        /\ ~b.never => b.onInt = "dies"}

\* the frontend, likewise, with its reaction to SIGTERM
FrontBehaviours ==
    {b \in [exists : BOOLEAN, never : BOOLEAN, dur : {ShortRun}, big : {FALSE},
            latency : {0}, onInt : {"dies", "ignores"}, onTerm : {"dies", "ignores"}] :
        /\ ~b.exists => ~b.never
        /\ ~b.never => (b.onInt = "dies" /\ b.onTerm = "dies")}

\* os.getpgid(pid): a wrapper started by start_proc stays in the process
\* group of the grader, together with the program it runs; the frontend is
\* started with start_new_session=True and leads a group of its own
ProcessGroup(r) == IF r = "front" THEN {"front"} ELSE Roles \ {"front"}
GraderInGroup(r) == r # "front"

\* the grader of ex5 installs sigint_handler; forked wrappers inherit it.
\* ex4 leaves Python's default handler, which raises KeyboardInterrupt
IgnoresSigint == grader = "ex5"

\* start_proc(server 1); start_proc(server 2); time.sleep(2)
C_StartServers ==
    /\ hpc = "c_start"
    /\ \E b1 \in ServerBehaviours, b2 \in ServerBehaviours :
          LET s1 == StartProc(wst, est, launchAt, beh, "srv1", b1)
              s2 == StartProc(s1.wst, est, s1.launchAt, s1.beh, "srv2", b2)
          IN /\ wst' = s2.wst
             /\ launchAt' = s2.launchAt
             /\ beh' = s2.beh
    /\ hTimer' = now + SETTLE
    /\ hpc' = "c_settle"
    /\ UNCHANGED <<now, joinIdx, est, eStart, pipe, outputs>>
    /\ UNCHANGED <<scoreVars, srvVars, rerunVars>>

\* the temporary input file and subprocess.Popen(["stdbuf", "-o0", "./exe"],
\* start_new_session=True); an exception goes to `except Exception`, which
\* records "Execution Error"; a missing executable makes stdbuf end at once
C_LaunchFrontend ==
    /\ hpc = "c_settle"
    /\ now >= hTimer
    /\ HarnessTurn
    /\ \E inputWritten \in BOOLEAN, popenFails \in BOOLEAN, b \in FrontBehaviours :
          IF ~inputWritten THEN
              \* open(temp_input_file, 'w') stands before the try: its
              \* exception leaves process_submission with the servers running
              /\ hpc' = "c_raised"
              /\ UNCHANGED <<beh, est, eStart, hTimer, outputs, joinIdx, frontPhase>>
          ELSE IF popenFails THEN
              /\ outputs' = [outputs EXCEPT !["front"] = ExecError]
              /\ frontPhase' = "failed"
              /\ hpc' = "c_teardown"
              /\ joinIdx' = 1
              /\ UNCHANGED <<beh, est, eStart, hTimer>>
          ELSE
              /\ beh' = [beh EXCEPT !["front"] = b]
              /\ est' = [est EXCEPT !["front"] = IF b.exists THEN "running" ELSE "exited"]
              /\ eStart' = [eStart EXCEPT !["front"] = now]
              /\ frontPhase' = "launched"
              /\ hTimer' = now + OBSERVE
              /\ hpc' = "c_observe"
              /\ UNCHANGED <<outputs, joinIdx>>
    /\ UNCHANGED <<now, wst, launchAt, pipe, sigTo>>
    /\ UNCHANGED <<scoreVars, rerunVars>>

\* os.killpg(os.getpgid(frontend.pid), signal.SIGINT) after the 2 seconds
C_InterruptFrontend ==
    /\ hpc = "c_observe"
    /\ now >= hTimer
    /\ HarnessTurn
    /\ sigTo' = [r \in Roles |-> IF r \in ProcessGroup("front") THEN sigTo[r] + 1
                                 ELSE sigTo[r]]
    /\ est' = [est EXCEPT !["front"] =
                  IF @ = "running" /\ beh["front"].onInt = "dies" THEN "exited" ELSE @]
    /\ frontPhase' = "interrupted"
    /\ hTimer' = now + INT_WAIT
    /\ hpc' = "c_wait_front"
    /\ UNCHANGED <<now, joinIdx, wst, launchAt, eStart, beh, pipe, outputs>>
    /\ UNCHANGED <<scoreVars, rerunVars>>

\* frontend.wait(timeout=5); on TimeoutExpired frontend.terminate(); then the
\* first two lines of the output file are recorded
C_FrontWaited ==
    /\ hpc = "c_wait_front"
    /\ HarnessTurn
    /\ est["front"] # "running" \/ now >= hTimer
    /\ est' = [est EXCEPT !["front"] =
                  IF @ = "running" /\ beh["front"].onTerm = "dies" THEN "killed" ELSE @]
    /\ outputs' = [outputs EXCEPT !["front"] = FrontSummary]
    /\ frontPhase' = "waited"
    /\ hpc' = "c_teardown"
    /\ joinIdx' = 1
    /\ UNCHANGED <<now, hTimer, wst, launchAt, eStart, beh, pipe, sigTo>>
    /\ UNCHANGED <<scoreVars, rerunVars>>

\* what a SIGINT to the grader's process group does to role x: a wrapper with
\* Python's default handler dies of KeyboardInterrupt (subprocess.run kills
\* its child on the way out) and leaves its queue empty; a wrapper that
\* inherited sigint_handler carries on, and if its child dies of the signal
\* subprocess.run returns and the message is put
ChildDiesOfSigint(x) == est[x] = "running" /\ beh[x].onInt = "dies"
WrapperReports(x) == IgnoresSigint /\ wst[x] = "running" /\ ChildDiesOfSigint(x)

SigintWst(x) ==
    IF ~IgnoresSigint /\ WrapperAlive(x) THEN "killed"
    ELSE IF WrapperReports(x) THEN (IF beh[x].big THEN "flushing" ELSE "exited")
    ELSE wst[x]

SigintEst(x) ==
    IF est[x] # "running" THEN est[x]
    ELSE IF ~IgnoresSigint /\ wst[x] = "running" THEN "killed"
    ELSE IF beh[x].onInt = "dies" THEN "exited"
    ELSE "running"

SigintPipe(x) ==
    IF WrapperReports(x) THEN (IF beh[x].big THEN "partial" ELSE Completed)
    ELSE pipe[x]

\* terminate_process(), first half: os.killpg(os.getpgid(proc.pid), SIGINT).
\* The signal reaches every process of the wrapper's group, the grader
\* included; KeyboardInterrupt passes `except Exception` and leaves
\* process_submission and main
C_Teardown ==
    /\ hpc = "c_teardown"
    /\ HarnessTurn
    /\ LET r == ServerRoles[joinIdx]
           G == ProcessGroup(r)
       IN /\ sigTo' = [x \in Roles |-> IF x \in G /\ sigTo[x] < 2 THEN sigTo[x] + 1
                                       ELSE sigTo[x]]
          /\ wst' = [x \in Roles |-> IF x \in G THEN SigintWst(x) ELSE wst[x]]
          /\ est' = [x \in Roles |-> IF x \in G THEN SigintEst(x) ELSE est[x]]
          /\ pipe' = [x \in Roles |-> IF x \in G THEN SigintPipe(x) ELSE pipe[x]]
          /\ IF GraderInGroup(r) /\ ~IgnoresSigint THEN
                 /\ hpc' = "c_aborted"
                 /\ UNCHANGED hTimer
             ELSE
                 /\ hpc' = "c_join"
                 /\ hTimer' = now + INT_WAIT
    /\ UNCHANGED <<now, joinIdx, launchAt, eStart, beh, outputs, frontPhase>>
    /\ UNCHANGED <<scoreVars, rerunVars>>

\* q.put("Terminated after test."); res = q.get_nowait() or "No Output".
\* The queue is first-in first-out: a message the wrapper has put comes first;
\* on an empty queue the read races with the feeder thread of the put; a
\* truncated message makes the read wait for its rest
PutAndRead(r, flushed) ==
    IF pipe[r] = "partial" THEN
        [pipe |-> pipe, outputs |-> outputs, stuck |-> TRUE]
    ELSE IF pipe[r] # "empty" THEN
        [pipe |-> [pipe EXCEPT ![r] = Terminated],
         outputs |-> [outputs EXCEPT ![r] = pipe[r]], stuck |-> FALSE]
    ELSE
        [pipe |-> [pipe EXCEPT ![r] = IF flushed THEN "empty" ELSE Terminated],
         outputs |-> [outputs EXCEPT ![r] = IF flushed THEN Terminated ELSE NoOutput],
         stuck |-> FALSE]

\* terminate_process(), second half, and the rest of the loop body:
\* proc.join(timeout=5) (which does not raise, so proc.terminate() is never
\* called), the put, the read, the entry in 'Execution Outputs'
C_TeardownJoined ==
    /\ hpc = "c_join"
    /\ HarnessTurn
    /\ JoinReturns(ServerRoles[joinIdx])
    /\ \E flushed \in BOOLEAN :
          LET res == PutAndRead(ServerRoles[joinIdx], flushed)
          IN /\ pipe' = res.pipe
             /\ outputs' = res.outputs
             /\ IF res.stuck THEN
                    /\ hpc' = "stuck"
                    /\ UNCHANGED joinIdx
                ELSE IF joinIdx < Len(ServerRoles) THEN
                    /\ joinIdx' = joinIdx + 1
                    /\ hpc' = "c_teardown"
                ELSE
                    /\ hpc' = "c_done"
                    /\ UNCHANGED joinIdx
    /\ UNCHANGED <<now, hTimer, wst, launchAt, est, eStart, beh>>
    /\ UNCHANGED <<scoreVars, srvVars, rerunVars>>

(***************************************************************************)
(* One program at a time (ex2 Program A and Program B)                     *)
(***************************************************************************)
\* what Program A can do: print its ten prompts or none, end when its input
\* is closed (or after a short run when it never prompted) or never end
DialogueBehaviours ==
    {b \in [exists : BOOLEAN, never : BOOLEAN, dur : {ShortRun, PROMPTS * PAUSE},
            big : BOOLEAN, latency : 0..MaxLatency, talks : BOOLEAN] :
        /\ ~b.exists => (~b.never /\ ~b.talks /\ ~b.big)
        /\ b.dur = (IF b.talks THEN PROMPTS * PAUSE ELSE ShortRun)
        /\ b.never => ~b.big}

\* run_program_a up to the first readline(): Popen(["stdbuf", "-o0", exe]);
\* with a missing executable stdbuf ends at once and readline() sees EOF
W_DialogueLaunch ==
    /\ LaunchDue("a")
    /\ wst' = [wst EXCEPT !["a"] = "dialogue"]
    /\ est' = [est EXCEPT !["a"] = IF beh["a"].exists THEN "running" ELSE "exited"]
    /\ eStart' = [eStart EXCEPT !["a"] = now]
    /\ UNCHANGED <<now, hpc, hTimer, joinIdx, launchAt, beh, pipe, outputs>>
    /\ UNCHANGED <<scoreVars, srvVars, rerunVars>>

\* run_program_a from there on: the readline() calls have no timeout; once
\* the child has ended the collected lines are put; only the final
\* wait(timeout=TIMEOUT_EXECUTION + 10) kills the child when it expires
W_DialogueEnd ==
    /\ DialogueDue
    /\ ~ExitDue("a")
    /\ IF est["a"] # "running" THEN
           /\ wst' = [wst EXCEPT !["a"] = IF beh["a"].big THEN "flushing" ELSE "exited"]
           /\ pipe' = [pipe EXCEPT !["a"] = IF beh["a"].big THEN "partial" ELSE Completed]
           /\ UNCHANGED est
       ELSE
           /\ est' = [est EXCEPT !["a"] = "killed"]
           /\ wst' = [wst EXCEPT !["a"] = "exited"]
           /\ pipe' = [pipe EXCEPT !["a"] = TimedOutStr]
    /\ UNCHANGED <<now, hpc, hTimer, joinIdx, launchAt, eStart, beh, outputs>>
    /\ UNCHANGED <<scoreVars, srvVars, rerunVars>>

\* if Compilation[source_a]: proc_a.start(); proc_a.join(TIMEOUT_EXECUTION + 10)
S_StartA ==
    /\ hpc = "s_a"
    /\ IF "A" \in compiled THEN
           /\ \E bh \in DialogueBehaviours :
                 LET st == StartProc(wst, est, launchAt, beh, "a", bh)
                 IN /\ wst' = st.wst
                    /\ launchAt' = st.launchAt
                    /\ beh' = st.beh
           /\ hTimer' = now + TIMEOUT_EXECUTION + JOIN_SLACK
           /\ hpc' = "s_join_a"
       ELSE
           /\ hpc' = "s_b"
           /\ UNCHANGED <<wst, launchAt, beh, hTimer>>
    /\ UNCHANGED <<now, joinIdx, est, eStart, pipe, outputs>>
    /\ UNCHANGED <<scoreVars, srvVars, rerunVars>>

\* after the join of role r: if proc.is_alive(): proc.terminate();
\* deductions += 5; queue.put("Execution timed out."); then get_nowait()
S_Collect(r, nextHpc, nextPc) ==
    /\ HarnessTurn
    /\ JoinReturns(r)
    /\ \E flushed \in BOOLEAN :
          LET res == JoinAndRead(r, flushed)
              d == IF WrapperAlive(r) THEN OuterTimeoutDeduction ELSE 0
          IN /\ wst' = res.wst
             /\ pipe' = res.pipe
             /\ outputs' = res.outputs
             /\ Deduct(d, d, 0)
             /\ hpc' = IF res.stuck THEN "stuck" ELSE nextHpc
             /\ pc' = IF res.stuck THEN "blocked" ELSE nextPc
    /\ UNCHANGED <<now, hTimer, joinIdx, launchAt, est, eStart, beh>>
    /\ UNCHANGED <<grader, gccVersionOk, mainPc, subIdx, summary, summaryWritten,
                   lingering, finalScore,
                   flags, stages, compiled, gate, observed>>
    /\ UNCHANGED <<srvVars, rerunVars>>

S_CollectA ==
    /\ hpc = "s_join_a"
    /\ S_Collect("a", "s_b", pc)

\* if Compilation[source_b]: proc_b.start(); proc_b.join(timeout=130)
S_StartB ==
    /\ hpc = "s_b"
    /\ IF "B" \in compiled THEN
           /\ \E bh \in Behaviours :
                 LET st == StartProc(wst, est, launchAt, beh, "b", bh)
                 IN /\ wst' = st.wst
                    /\ launchAt' = st.launchAt
                    /\ beh' = st.beh
           /\ hTimer' = now + B_JOIN
           /\ hpc' = "s_join_b"
           /\ UNCHANGED pc
       ELSE
           /\ hpc' = "s_done"
           /\ pc' = "score"
           /\ UNCHANGED <<wst, launchAt, beh, hTimer>>
    /\ UNCHANGED <<now, joinIdx, est, eStart, pipe, outputs>>
    /\ UNCHANGED <<grader, gccVersionOk, mainPc, subIdx, summary, summaryWritten,
                   lingering, deductions,
                   pointsDeducted, finalScore, issues, flags, stages, compiled, gate, observed>>
    /\ UNCHANGED <<srvVars, rerunVars>>

S_CollectB ==
    /\ hpc = "s_join_b"
    /\ S_Collect("b", "s_done", "score")

IdleRoles == [r \in Roles |-> "none"]

\* no folder is under a second call, and no first call has returned
NoFolder == [archives |-> 0, nameOk |-> FALSE, extractOk |-> FALSE, nested |-> 0]
NoVerdict == [done |-> FALSE, filenameCorrect |-> TRUE, manyArchives |-> FALSE]
NoRerun == folder = NoFolder /\ first = NoVerdict

InitProcs ==
    /\ now = 0
    /\ hTimer = 0
    /\ joinIdx = 1
    /\ wst = IdleRoles
    /\ launchAt = [r \in Roles |-> 0]
    /\ est = IdleRoles
    /\ eStart = [r \in Roles |-> 0]
    /\ beh = [r \in Roles |-> NoBehaviour]
    /\ pipe = [r \in Roles |-> "empty"]
    /\ outputs = [r \in Roles |-> "unset"]
    /\ sigTo = [r \in Roles |-> 0]
    /\ frontPhase = "pending"

\* the verdict part stays as it is at the start of the execution phase
InitVerdict ==
    /\ mainPc = "call"
    /\ subIdx = 1
    /\ summary = << >>
    /\ summaryWritten = FALSE
    /\ lingering = FALSE
    /\ gccVersionOk = TRUE
    /\ pc = "execute"
    /\ deductions = 0
    /\ pointsDeducted = 0
    /\ finalScore = TOTAL_POINTS
    /\ issues = 0
    /\ flags = FreshFlags
    /\ stages = {}
    /\ gate = "none"
    /\ observed = {}

\* the compile loop has left any of the two sources of the group compiled
InitGroup ==
    /\ grader \in {"ex4", "ex5"}
    /\ InitVerdict
    /\ compiled \in SUBSET {SourceOf("mgr"), SourceOf("p0")}
    /\ InitProcs
    /\ NoRerun
    /\ hpc = "g_start_mgr"

NextGroup ==
    \/ G_StartManager \/ G_StartParticipants \/ G_Collect
    \/ \E r \in {"mgr", "p0", "p1"} : W_Launch(r) \/ E_Exit(r) \/ W_InnerTimeout(r)
    \/ Tick

SpecGroup == InitGroup /\ [][NextGroup]_vars

InitServers ==
    /\ grader \in {"ex4", "ex5"}
    /\ InitVerdict
    /\ compiled = {}
    /\ InitProcs
    /\ NoRerun
    /\ hpc = "c_start"

NextServers ==
    \/ C_StartServers \/ C_LaunchFrontend \/ C_InterruptFrontend \/ C_FrontWaited
    \/ C_Teardown \/ C_TeardownJoined
    \/ \E r \in {"srv1", "srv2"} : W_Launch(r) \/ W_InnerTimeout(r)
    \/ \E r \in {"srv1", "srv2", "front"} : E_Exit(r)
    \/ Tick

SpecServers == InitServers /\ [][NextServers]_vars

InitSingle ==
    /\ grader = "ex2"
    /\ mainPc = "call"
    /\ subIdx = 1
    /\ summary = << >>
    /\ summaryWritten = FALSE
    /\ lingering = FALSE
    /\ gccVersionOk = TRUE
    /\ pc = "execute"
    /\ deductions = 0
    /\ pointsDeducted = 0
    /\ finalScore = TOTAL_POINTS
    /\ issues = 0
    /\ flags = FreshFlags
    /\ stages = {}
    /\ compiled \in SUBSET {"A", "B"}
    /\ gate = "none"
    /\ observed = {}
    /\ InitProcs
    /\ NoRerun
    /\ hpc = "s_a"

NextSingle ==
    \/ S_StartA \/ S_CollectA \/ S_StartB \/ S_CollectB
    \/ W_DialogueLaunch \/ W_DialogueEnd \/ E_Exit("a")
    \/ W_Launch("b") \/ E_Exit("b") \/ W_InnerTimeout("b")
    \/ Clamp_Score
    \/ Tick

SpecSingle == InitSingle /\ [][NextSingle]_vars

(***************************************************************************)
(* process_submission of ex1-b called twice in a row on one submission     *)
(* folder: the archive is extracted into the folder it was found in, and   *)
(* nothing is removed afterwards                                           *)
(***************************************************************************)
\* a submission folder as it was handed in: the archives in it, whether the
\* one archive is named as expected and can be extracted, and the archives
\* among its members; fields that cannot matter are kept at one value
Folders ==
    {f \in [archives : 0..2, nameOk : BOOLEAN, extractOk : BOOLEAN, nested : 0..1] :
        /\ f.archives # 1 => ~f.nameOk
        /\ ~f.nameOk => ~f.extractOk
        /\ ~f.extractOk => f.nested = 0}

\* archive_files = [f for f in os.listdir(submission_path) if ...] and the
\* branches on it, over the folder as it is now
R_FindArchive ==
    /\ grader = "ex1b" /\ mainPc = "call" /\ pc = "begin"
    /\ ArchiveSearch(POINTS1B.filename_correct, folder.archives, folder.nameOk,
                     IF folder.nameOk THEN "extract" ELSE "comments")
    /\ UNCHANGED stages
    /\ UNCHANGED <<compiled, observed>>
    /\ MainUnchanged

\* extract_path = submission_path: the members of the archive, archives among
\* them included, are written next to the archive
R_Extract ==
    /\ grader = "ex1b" /\ mainPc = "call" /\ pc = "extract"
    /\ IF ~folder.extractOk THEN
           /\ Ex1b_ExtractionFailure
           /\ UNCHANGED folder
       ELSE
           /\ Deduct(0, 0, 0)
           /\ UNCHANGED <<flags, finalScore, gate>>
           /\ pc' = "structure"
           /\ folder' = [folder EXCEPT !.archives = Max(@, 1 + folder.nested)]
    /\ stages' = stages \cup {"extract"}
    /\ UNCHANGED <<compiled, observed, first>>
    /\ UNCHANGED <<grader, gccVersionOk, mainPc, subIdx, summary, summaryWritten,
                   lingering>>
    /\ UNCHANGED harnessVars

\* the first call has returned; process_submission is called again on the
\* folder as the first call left it and builds a fresh verdict
R_SecondCall ==
    /\ grader = "ex1b" /\ mainPc = "call" /\ pc = "returned"
    /\ ~first.done
    /\ first' = [done |-> TRUE, filenameCorrect |-> flags["Filename Correct"],
                 manyArchives |-> (gate = "many_archives")]
    /\ pc' = "begin"
    /\ deductions' = 0
    /\ pointsDeducted' = 0
    /\ finalScore' = TOTAL_POINTS
    /\ issues' = 0
    /\ flags' = FreshFlags
    /\ stages' = {}
    /\ compiled' = {}
    /\ gate' = "none"
    /\ observed' = {}
    /\ UNCHANGED <<grader, gccVersionOk, mainPc, subIdx, summary, summaryWritten,
                   lingering, folder>>
    /\ UNCHANGED harnessVars

InitRerun ==
    /\ grader = "ex1b"
    /\ mainPc = "call"
    /\ subIdx = 1
    /\ summary = << >>
    /\ summaryWritten = FALSE
    /\ lingering = FALSE
    /\ gccVersionOk = TRUE
    /\ pc = "begin"
    /\ deductions = 0
    /\ pointsDeducted = 0
    /\ finalScore = TOTAL_POINTS
    /\ issues = 0
    /\ flags = FreshFlags
    /\ stages = {}
    /\ compiled = {}
    /\ gate = "none"
    /\ observed = {}
    /\ InitProcs
    /\ hpc = "idle"
    /\ folder \in Folders
    /\ first = NoVerdict

NextRerun ==
    \/ R_FindArchive \/ R_Extract \/ R_SecondCall
    \/ Ex1b_Structure \/ Ex1b_Compile \/ Ex1b_Comments \/ Ex01_Score

SpecRerun == InitRerun /\ [][NextRerun]_vars

(***************************************************************************)
(* The scoring specification                                               *)
(***************************************************************************)
InitScore ==
    /\ grader \in Graders
    /\ mainPc = "start"
    /\ subIdx = 0
    /\ summary = << >>
    /\ summaryWritten = FALSE
    /\ lingering = FALSE
    /\ gccVersionOk \in BOOLEAN
    /\ pc = "idle"
    /\ deductions = 0
    /\ pointsDeducted = 0
    /\ finalScore = TOTAL_POINTS
    /\ issues = 0
    /\ flags = FreshFlags
    /\ stages = {}
    /\ compiled = {}
    /\ gate = "none"
    /\ observed = {}
    /\ InitProcs
    /\ NoRerun
    /\ hpc = "idle"

NextScore ==
    \/ Main_Start \/ Main_Call \/ Main_Append \/ Main_Summary
    \/ Ex0_FindArchive \/ Ex0_Extract \/ Ex0_Structure \/ Ex0_Compile
    \/ Ex0_Execute \/ Ex0_Comments \/ Ex01_Score
    \/ Ex1_FindArchive \/ Ex1_Extract \/ Ex1_Structure \/ Ex1_Compile \/ Ex1_Execute
    \/ Ex1b_FindArchive \/ Ex1b_Extract \/ Ex1b_Structure \/ Ex1b_Compile
    \/ Ex1b_Comments
    \/ Ex2_Archive \/ Ex2_Files \/ Ex2_Compile \/ Ex2_Execute
    \/ Ex3_Archive \/ Ex3_Files \/ Ex3_Compile \/ Ex3_Comments \/ Ex3_Execute
    \/ Ex45_Archive \/ Ex45_Files \/ Ex45_Compile \/ Ex4_Execute \/ Ex5_Execute
    \/ Clamp_Score

SpecScore == InitScore /\ [][NextScore]_vars

(***************************************************************************)
(* Claims about the verdict (checked under SpecScore)                      *)
(***************************************************************************)
\* C1: in every grader, on every return path of process_submission, the
\* Final Score lies between 0 and 100 inclusive
C1_FinalScoreInRange ==
    pc = "returned" => (0 <= finalScore /\ finalScore <= TOTAL_POINTS)

\* C2: on every return path, early returns included, the Final Score is
\* max(0, 100 - d) where d is the local deductions accumulator (which
\* includes the folder-name deduction)
C2_FinalScoreFromAccumulator ==
    pc = "returned" => finalScore = Max(0, TOTAL_POINTS - deductions)

\* C3: no condition of a submission makes process_submission raise or the
\* run abort, and the summary that is written has exactly one entry for
\* each submission directory
C3_NoRaiseOneEntryEach ==
    /\ pc # "raised"
    /\ mainPc # "aborted"
    /\ summaryWritten => summary = [i \in 1..NumSubs |-> i]

\* C7: process_submission never sits in a wait that has no bound, whatever
\* the student programs and the tools do, so it terminates
C7_EveryWaitBounded ==
    pc # "blocked"


\* C15: once a submission has met an unrecoverable failure (missing archive,
\* extraction failure, none of the required sources present) no later stage
\* has run for it: no compilation, no valgrind, no program launch
C15_ShortCircuit ==
    gate \in {"no_archive", "extract_failed", "no_sources"} =>
        stages \cap {"compile", "valgrind", "execute"} = {}

\* C16: in every grader a submission that returned on an extraction failure
\* carries a worst-case verdict: compilation, the first downstream category,
\* is marked failed, and the deductions are in the total and the Final Score
C16_ExtractionFailureWorstCase ==
    (gate = "extract_failed" /\ pc = "returned") =>
        /\ ~flags["Compilation"]
        /\ deductions > 0
        /\ finalScore <= Max(0, TOTAL_POINTS - deductions)

\* C18: in ex0 a compile that fails (gcc returns nonzero or prints an
\* 'error:' line) sets Compilation to false and charges compilation_errors
\* (60) for it (next to the 5 of a README format issue, which gives its own
\* entry of Issues), and neither valgrind nor the program is run
C18_Ex0CompileFailureSkipsExecution ==
    /\ [](grader = "ex0" /\ gate = "none" /\ ~flags["Compilation"]
            => stages \cap {"valgrind", "execute"} = {})
    /\ [][(grader = "ex0" /\ pc = "compile" /\ ~flags'["Compilation"]) =>
             /\ POINTS0.compilation_errors = 60
             /\ deductions' = deductions + POINTS0.compilation_errors
                                + POINTS0.readme_correct * (issues' - issues - 1)
             /\ pc' = "comments"]_vars

\* an ex0 submission returned after its compile failed
C18_Witness ==
    /\ grader = "ex0" /\ pc = "returned" /\ gate = "none"
    /\ "compile" \in stages /\ ~flags["Compilation"]

\* C19: in ex0, ex1 and ex1-b a submission folder without an archive gives
\* Filename Correct = false, Points Deducted = 5 and Final Score = 95, and
\* the submission has returned with no working directory made and nothing
\* extracted, compiled or run
C19_NoArchiveVerdict ==
    (grader \in {"ex0", "ex1", "ex1b"} /\ gate = "no_archive") =>
        /\ ~flags["Filename Correct"]
        /\ pointsDeducted = 5
        /\ finalScore = 95
        /\ pc = "returned"
        /\ stages = {}

\* a verdict of ex1-b for a folder without an archive has reached the summary
C19_Witness ==
    /\ grader = "ex1b" /\ gate = "no_archive"
    /\ mainPc = "loop" /\ Len(summary) > 0

\* a valid single-file submission of ex0: correctly named archive, exactly
\* one .c file and one README, gcc without errors or warnings, and the
\* program's output accepted by compare_output
ValidCleanCorrect ==
    /\ grader = "ex0" /\ pc = "returned" /\ gate = "none"
    /\ flags["Filename Correct"] /\ flags["Content Structure"]
    /\ {"clean_compile", "output_equal"} \subseteq observed

\* C20 as the specification words it: such a submission has Compilation =
\* true, Output Correct = true and Final Score = 100
C20_AsStated ==
    ValidCleanCorrect =>
        flags["Compilation"] /\ flags["Output Correct"] /\ finalScore = 100

\* C20: such a submission has Compilation = true; if moreover the program
\* exits with code 0, valgrind reports nothing, the .c file has a comment in
\* its first lines and the README is named README and can be read, then
\* Output Correct = true and Final Score = 100
C20_CleanSubmissionFullScore ==
    ValidCleanCorrect =>
        /\ flags["Compilation"]
        /\ (/\ flags["Valgrind"] /\ flags["Comments Present"]
            /\ {"exit_zero", "readme_named", "readme_read"} \subseteq observed)
              => (flags["Output Correct"] /\ finalScore = 100)

\* an ex0 submission that meets every condition has returned
C20_Witness ==
    /\ ValidCleanCorrect
    /\ flags["Valgrind"] /\ flags["Comments Present"]
    /\ {"exit_zero", "readme_named", "readme_read"} \subseteq observed

\* C21: within process_submission neither the accumulator `deductions` nor
\* the verdict's 'Points Deducted' ever decreases, the final assignment of
\* 'Points Deducted' from the accumulator included
C21_DeductionsNeverDecrease ==
    [][mainPc = "call" =>
          /\ deductions' >= deductions
          /\ pointsDeducted' >= pointsDeducted]_vars

\* the final assignment has raised 'Points Deducted' to an accumulator that
\* holds charges made without it
C21_Witness ==
    /\ pc = "returned" /\ gate = "none"
    /\ flags["Filename Correct"]
    /\ pointsDeducted = deductions /\ deductions > 0

\* C23: the verdict of a submission does not depend on the submissions
\* processed before it in the same run: when ex1 reports leftover child
\* processes for a submission, that submission's own programs left them
C23_VerdictIndependentOfEarlier ==
    (grader = "ex1" /\ "children_found" \in observed)
        => "own_children" \in observed

\* C24: the summary is written once, by the step that follows the return
\* of process_submission for the last submission directory, and holds one
\* verdict per submission in processing order; a run that stopped, aborted
\* or blocks before that has written no summary
C24_SummaryOnceAfterAll ==
    /\ [](summaryWritten <=> mainPc = "finished")
    /\ [](summaryWritten => /\ subIdx = NumSubs
                            /\ pc = "returned"
                            /\ summary = [i \in 1..NumSubs |-> i])
    /\ [][summaryWritten' # summaryWritten
             => /\ ~summaryWritten
                /\ mainPc = "loop" /\ subIdx = NumSubs
                /\ Len(summary) = NumSubs
                /\ summary' = summary]_vars

C24_Witness ==
    /\ summaryWritten /\ mainPc = "finished"
    /\ Len(summary) = NumSubs /\ NumSubs > 1

\* C25: a returned verdict that has points deducted, or a final score
\* below the total, names at least one issue
C25_DeductionHasIssue ==
    (pc = "returned" /\ (pointsDeducted > 0 \/ finalScore < TOTAL_POINTS))
        => issues > 0

\* C26: with a compiler of the wrong version the run stops in the
\* pre-flight check: no submission is taken up and no summary is written
C26_WrongCompilerStopsRun ==
    ~gccVersionOk => /\ mainPc \in {"start", "stopped"}
                     /\ subIdx = 0
                     /\ ~summaryWritten

\* C27: every compiler invocation ends, by itself or at the compile
\* timeout, and the pipeline goes on to its next stage: the compile step of
\* a submission never leaves process_submission waiting for gcc
C27_CompileBounded ==
    [][(mainPc = "call" /\ pc = "compile") => pc' # "blocked"]_vars

\* C28: in ex0 and ex1 every return of process_submission that comes after
\* the working directory was created has removed it, so the directory is
\* gone when main() takes up the next submission
C28_WorkdirRemoved ==
    /\ []((grader \in {"ex0", "ex1"} /\ pc = "returned" /\ "mkdir" \in stages)
            => "rmtree" \in stages)
    /\ [][(grader \in {"ex0", "ex1"} /\ mainPc = "loop" /\ mainPc' = "call")
             => ("mkdir" \in stages => "rmtree" \in stages)]_vars

C28_Witness ==
    /\ grader = "ex1" /\ pc = "returned" /\ gate = "none" /\ subIdx = 1
    /\ {"mkdir", "execute", "rmtree"} \subseteq stages

\* C29: in ex0, ex1 and ex1-b a folder with more than one archive is charged
\* twice filename_correct (10 points), gets Filename Correct = false and
\* returns at once with Final Score 90: nothing is extracted, compiled or
\* executed
C29_ManyArchivesVerdict ==
    gate = "many_archives" =>
        /\ grader \in {"ex0", "ex1", "ex1b"}
        /\ pc = "returned"
        /\ ~flags["Filename Correct"]
        /\ deductions = 10 /\ pointsDeducted = 10
        /\ finalScore = 90
        /\ issues = 1
        /\ stages = {}

C29_Witness ==
    /\ grader = "ex1" /\ gate = "many_archives" /\ mainPc = "call"
    /\ finalScore = TOTAL_POINTS - POINTS1.filename_correct * 2

\* C30: a returned verdict's 'Points Deducted' is the total of the
\* deductions applied to it, and unless the score was clamped at 0,
\* Final Score + Points Deducted = 100
C30_PointsDeductedIsTotal ==
    pc = "returned" =>
        /\ pointsDeducted = deductions
        /\ finalScore # 0 => finalScore + pointsDeducted = TOTAL_POINTS

\* C33: in ex1, when the run of ex1b left a child process of the student's
\* programs alive, the leftover-process check finds it (and records the
\* issue and the child_processes deduction)
C33_LeftoverChildDetected ==
    (grader = "ex1" /\ "own_children" \in observed)
        => "children_found" \in observed

\* C34: in ex0 the output_correct deduction is applied at most once per
\* submission: the execution step charges no more than valgrind plus one
\* output_correct, also when the run failed and the output differs
C34_OutputCorrectChargedOnce ==
    [][(grader = "ex0" /\ pc = "execute" /\ pc' = "comments")
         => deductions' - deductions <= POINTS0.valgrind + POINTS0.output_correct]_vars

\* C35: in ex3, when an expected source file is missing and the folder holds
\* more than two .c files, the other .c files are reported as extra .c files
\* and extra_c_files is charged for each of them (on every path that gets
\* past the compile loop)
C35_ExtraCFilesCharged ==
    (grader = "ex3" /\ "many_c_files" \in observed /\ pc # "raised")
        => "extra_c_reported" \in observed

\* C36: in ex1 a submission with a valid content structure (one that got as
\* far as compiling) has had its comment check and README capture done when
\* process_submission returns, whether ex1a.c and ex1b.c compiled or not
C36_CommentsCheckedAnyway ==
    (grader = "ex1" /\ pc = "returned" /\ "compile" \in stages)
        => "comments" \in stages

(***************************************************************************)
(* Claims about the manager + 2 participants group (checked under          *)
(* SpecGroup)                                                              *)
(***************************************************************************)
\* the program of role r ran for no longer than the deadline
WithinDeadline(r) == ~beh[r].never /\ beh[r].dur <= TIMEOUT_EXECUTION

\* C6: a role whose program runs for time T under deadline D (counted from
\* the launch of the student process) is recorded as completed iff T <= D and
\* as timed out iff T > D, for every role of the group whatever the join order
C6_CompletedIffWithinDeadline ==
    \A r \in {"mgr", "p0", "p1"} :
        (outputs[r] # "unset" /\ beh[r].exists) =>
            /\ (outputs[r] = Completed) <=> WithinDeadline(r)
            /\ (outputs[r] \in {ExecTimeout, TimedOutStr}) <=> ~WithinDeadline(r)

\* C9: a participant's student executable starts no earlier than 2 seconds
\* after the manager's student executable started, and never before it
C9_LaterRoleStartsAfterSettle ==
    \A r \in {"p0", "p1"} :
        (beh["mgr"].exists /\ wst["mgr"] # "none" /\ est[r] # "none") =>
            /\ est["mgr"] # "none"
            /\ eStart[r] >= eStart["mgr"] + SETTLE

\* what a role on its own is recorded with
OwnOutcome(r) ==
    IF ~beh[r].exists THEN ExecError
    ELSE IF WithinDeadline(r) THEN Completed ELSE ExecTimeout

\* C10: when a participant's process never terminates, that role is recorded
\* as timed out, the manager and the other participant are recorded with
\* their own outcome, and the harness gets to the end of the group with one
\* entry in 'Execution Outputs' for each of the three roles
C10_NeverEndingParticipant ==
    \A p \in {"p0", "p1"} :
        (beh[p].exists /\ beh[p].never) =>
            /\ hpc # "stuck"
            /\ outputs[p] # "unset" => outputs[p] \in {ExecTimeout, TimedOutStr}
            /\ hpc = "g_done" => \A r \in {"mgr", "p0", "p1"} : outputs[r] = OwnOutcome(r)

\* C14: a role whose executable is missing is recorded with 'Execution
\* Error' for that role only, nothing is raised out of the harness, and the
\* remaining roles are still launched and reported
C14_MissingExecutableIsRoleError ==
    \A r \in {"mgr", "p0", "p1"} :
        (wst[r] # "none" /\ ~beh[r].exists) =>
            /\ outputs[r] # "unset" => outputs[r] = ExecError
            /\ hpc # "stuck"
            /\ hpc = "g_done" =>
                  \A x \in {"mgr", "p0", "p1"} \ {r} :
                      wst[x] # "none" /\ outputs[x] = OwnOutcome(x)

\* C17: compilation gates execution per role: a student executable has been
\* launched only for a role whose source compiled in this run
C17_CompileGatesExecute ==
    \A r \in {"mgr", "p0", "p1"} : est[r] # "none" => SourceOf(r) \in compiled

\* C31: a role whose program exits within its deadline is recorded with its
\* output and exit code however long the message on its queue is: a long
\* message neither turns the role into a timed-out one nor leaves the
\* harness waiting on the queue
C31_OutputSizeDoesNotMatter ==
    \A r \in {"mgr", "p0", "p1"} :
        (beh[r].exists /\ beh[r].big /\ WithinDeadline(r)) =>
            /\ ~(hpc = "stuck" /\ GroupRoles[joinIdx] = r)
            /\ outputs[r] # "unset" => outputs[r] = Completed

\* the messages a wrapper puts on its queue
WrapperMessages == {Completed, ExecTimeout, ExecError}

\* C37: a wrapper that ends by itself has put exactly one message on its
\* queue (the queue was empty before and holds one message at its exit), and
\* the harness reads exactly that one message for the role: once the harness
\* is through with the group, or can go no further, the role's entry is the
\* wrapper's message and the queue is empty
C37_OneMessagePerRole ==
    /\ [][\A r \in {"mgr", "p0", "p1"} :
             (wst[r] # "exited" /\ wst'[r] = "exited")
                 => (pipe[r] = "empty" /\ pipe'[r] \in WrapperMessages)]_vars
    /\ [](\A r \in {"mgr", "p0", "p1"} :
             (wst[r] = "exited" /\ hpc \in {"g_done", "stuck"})
                 => (outputs[r] \in WrapperMessages /\ pipe[r] = "empty"))

(***************************************************************************)
(* Claims about the server/frontend teardown (SpecServers)                 *)
(***************************************************************************)
\* C4: in ex4 and ex5 the SIGINTs sent while the frontend and the two servers
\* are torn down never end the grader's own control flow: the harness is
\* never left by a KeyboardInterrupt, so process_submission goes on to the
\* scoring step and main to the next submission
C4_GraderSurvivesTeardown == hpc # "c_aborted"

\* the harness run of the topology is over: its last statement was executed
\* or an exception left it
HarnessRunOver == hpc \in {"c_done", "c_aborted", "c_raised"}

\* C8: a server is signalled only after the frontend has been interrupted and
\* waited for (or could not be launched), and when the harness run is over
\* both servers have been sent an interrupt, on every path
C8_FrontendFirstServersAlways ==
    /\ (sigTo["srv1"] > 0 \/ sigTo["srv2"] > 0) => frontPhase \in {"waited", "failed"}
    /\ HarnessRunOver => (sigTo["srv1"] > 0 /\ sigTo["srv2"] > 0)

\* a role has a live process: its wrapper or its student executable
Live(x) == WrapperAlive(x) \/ est[x] = "running"

\* the step in which the harness interrupts role r
InterruptStep(r) ==
    IF r = "front" THEN hpc = "c_observe" /\ hpc' = "c_wait_front"
    ELSE hpc = "c_teardown" /\ hpc' # "c_teardown" /\ ServerRoles[joinIdx] = r

\* the step leaves every role but r as it was
OthersUntouched(r) ==
    \A x \in Roles \ {r} :
        wst'[x] = wst[x] /\ est'[x] = est[x] /\ pipe'[x] = pipe[x]

\* C11: tearing down a role whose process has already exited raises nothing,
\* sends no signal to a live process and leaves every other role unchanged
C11_TeardownOfExitedRole ==
    [][\A r \in {"front", "srv1", "srv2"} :
          (InterruptStep(r) /\ ~Live(r)) =>
              /\ hpc' # "c_aborted"
              /\ \A x \in Roles : Live(x) => sigTo'[x] = sigTo[x]
              /\ OthersUntouched(r)]_vars

\* C12: a signal sent to tear down role r reaches only r's own processes,
\* never the grader and never a live process of another role
C12_SignalOnlyToOwnRole ==
    [][\A r \in {"front", "srv1", "srv2"} :
          InterruptStep(r) =>
              /\ ~GraderInGroup(r)
              /\ \A x \in Roles \ {r} : Live(x) => sigTo'[x] = sigTo[x]]_vars

\* C13: after the SIGINT and the wait of up to 5 seconds a role that is
\* still alive is force-terminated, and a role that ended within the wait is
\* not: the frontend's executable, the servers' wrapper Processes
C13_ForceTerminateIffStillAlive ==
    [][/\ (hpc = "c_wait_front" /\ hpc' # "c_wait_front") =>
              IF est["front"] = "running"
              THEN beh["front"].onTerm = "dies" => est'["front"] = "killed"
              ELSE est'["front"] = est["front"]
       /\ (hpc = "c_join" /\ hpc' # "c_join") =>
              IF WrapperAlive(ServerRoles[joinIdx])
              THEN wst'[ServerRoles[joinIdx]] = "killed"
              ELSE wst'[ServerRoles[joinIdx]] = wst[ServerRoles[joinIdx]]]_vars

(***************************************************************************)
(* Claims about programs run one at a time (SpecSingle)                    *)
(***************************************************************************)
\* C5: when process_submission returns, no student executable launched for
\* the submission is still running: a role whose deadline expired had its
\* executable killed
C5_NoStudentProcessLeft == pc = "returned" => \A r \in Roles : est[r] # "running"

\* C32: a role whose wrapper Process was still alive at the end of its join
\* timeout and was terminated is recorded with the harness's own message
\* "Execution timed out.", never with "No Output"
C32_TerminatedRoleTimedOut ==
    \A r \in {"a", "b"} :
        (wst[r] = "killed" /\ outputs[r] # "unset") => outputs[r] = TimedOutStr

(***************************************************************************)
(* Claims about two calls on one folder (SpecRerun)                        *)
(***************************************************************************)
\* C22: the second of two calls of process_submission on one submission
\* folder returns the verdict the first call returned: the same Filename
\* Correct, and the "Multiple archive files found." return in both or in none
C22_SecondCallSameVerdict ==
    (first.done /\ pc = "returned") =>
        /\ flags["Filename Correct"] = first.filenameCorrect
        /\ (gate = "many_archives") = first.manyArchives

====
